---- MODULE Spec2Model ----
(***************************************************************************)
(* Model of the Wasabi storage bot: the multipart upload and ranged        *)
(* download of HighPerformanceS3 (bot.py) and S3Manager                    *)
(* (deepseek_python_20250927_ffcff5.py), the access tokens of              *)
(* SecurityManager (utils/security.py) with the player endpoint of         *)
(* flask_app.py, the rate limiter is_rate_limited of both bot files, the  *)
(* message handlers of both bot files, and the progress reporters of       *)
(* progress.py.                                                            *)
(*                                                                         *)
(* Sizes and offsets of HighPerformanceS3 (impl = "bot") are counted in    *)
(* MiB: its code only adds and compares sizes, and every size constant of  *)
(* bot.py is a whole number of MiB.  Sizes and offsets of S3Manager        *)
(* (impl = "s3m") are counted in bytes, because multipart_upload divides   *)
(* the file size by 50.  A byte string is a sequence of pieces [lo, hi) of *)
(* source-file offsets (the source file holds a different value at every   *)
(* offset), so that a transfer which drops, repeats or reorders data       *)
(* yields a content different from the source.                             *)
(***************************************************************************)
EXTENDS Integers, Sequences, FiniteSets, TLC

VARIABLES
    impl,             \* "bot" (HighPerformanceS3) or "s3m" (S3Manager)
    source,           \* the local source file: "ok", "missing" or "unreadable"
    file_size,        \* size of the local source file
    pos,              \* read position of the open source file
    u_pc,             \* position of the upload operation
    chunk,            \* the chunk read last (content), <<>> if none
    part_number,      \* next part number
    parts,            \* the list sent to complete_multipart_upload
    mpu,              \* backend: state of the upload id
    bparts,           \* backend: part number -> content received
    object,           \* backend: the stored object
    u_err,            \* the error the upload raised ("none" if none)
    calls,            \* backend calls issued, per primitive
    submitted,        \* the chunks handed to upload_part, in call order
    partFailed,       \* an upload_part call has failed
    afterFail,        \* upload_part calls issued after a failed one
    anyFail,          \* some backend call of this run has failed
    d_pc,             \* position of the download operation
    d_size,           \* ContentLength returned by head_object
    bytes_downloaded, \* bytes written so far
    dest,             \* the destination file
    destOpened,       \* the destination was opened for writing
    ranges,           \* the ranged reads requested, in call order
    d_err,            \* the error the download raised ("none" if none)
    secret_key,       \* SecurityManager.secret_key
    now,              \* the clock, in ticks
    tok,              \* the token under examination
    tokInfo,          \* how tok came about
    last,             \* the last verify_token or player call and its answer
    rl_impl,          \* which is_rate_limited: "bot" or "deepseek"
    limit,            \* is_rate_limited's limit argument
    period,           \* is_rate_limited's period argument
    clock,            \* datetime.now(), in seconds
    user_requests,    \* identity -> list of timestamps
    rl_log,           \* the calls made: identity, time, answer
    h_kind,           \* the request being handled: "start", "upload", "download"
    h_pc,             \* position of the handler
    h_user,           \* message.from_user.id
    gate,             \* the limiter's answer in this request, and for whom
    media_size,       \* the size Telegram declares for the media, in MiB
    downloaded,       \* MiB streamed into the scratch file so far
    tmpdir,           \* the job's temporary directory: "none", "exists", "removed"
    download_path,    \* the handler's variable download_path is bound to the path
    h_result,         \* what the handler answered
    backups,          \* number of configured backup accounts
    backupHolds,      \* the backup accounts hold the requested object
    ran,              \* the backends an upload pipeline ran against
    tried,            \* the backends a download asked, in order
    cancelled,        \* the handler's task was cancelled in this request
    partsAtCancel,    \* upload_part calls issued before the cancellation
    removedInUse,     \* the scratch file was removed while the upload read it
    sent,             \* the share links and failure messages sent in this request
    p_impl,           \* "pyrogram", "loop" (the handlers' loops) or "boto3"
    p_now,            \* time.time(), in ticks
    start_time,       \* start of the transfer
    last_update,      \* last_update / _last_update_time
    seen_so_far,      \* Boto3Progress._seen_so_far
    reported,         \* sum of the amounts passed to the callbacks
    published,        \* the times at which a progress update was published
    t_pc,             \* worker thread -> position in Boto3Progress.__call__
    t_amt,            \* worker thread -> bytes_amount of its call
    t_now,            \* worker thread -> its local now
    t_tmp,            \* worker thread -> the value of _seen_so_far it loaded
    p_calls,          \* callbacks invoked so far
    c_pc,             \* concurrent task -> position of its coroutine
    c_kind,           \* concurrent task -> "upload", "download" or "progress"
    c_user,           \* concurrent task -> message.from_user.id
    c_now,            \* concurrent task -> is_rate_limited's local now
    loop,             \* the task that holds the event-loop thread, 0 if none
    arrivals,         \* requests and callbacks that have arrived
    s_site,           \* the reporter whose snapshot is computed
    s_pc,             \* position of that reporter
    s_total,          \* total size of the transfer
    s_current,        \* bytes transferred so far
    s_last,           \* last_processed
    s_dt,             \* seconds since the time the speed is measured from
    s_samples,        \* PerformanceMonitor.speed_samples
    s_snap,           \* the figures of the last snapshot
    w_op,             \* the wrapper method called last ("none" if none)
    w_key,            \* its s3_key / object_name argument
    w_local,          \* the local file of the call: "missing", "empty", "ok"
    w_backend,        \* the backend during the call: "up", "denied", "down"
    w_bucket,         \* the keys stored in the bucket
    w_out,            \* how the call ended: returned a value or raised
    n_bucket,         \* the keys of the objects stored for all users
    n_last,           \* the last request: who asked, the key used, the objects reached
    k_pc,             \* concurrent job -> position of its handler and upload
    k_name,           \* concurrent job -> media.file_name
    k_dir,            \* concurrent job -> its temporary directory
    k_path,           \* concurrent job -> the path of its scratch file
    k_mpu,            \* concurrent job -> its upload id
    k_files,          \* the scratch files that exist, each with the job holding it
    k_clash,          \* the touches by a job of a file held by another job
    k_made,           \* directories made by mkdtemp so far
    k_ids,            \* upload ids issued by the backend so far
    k_arrived         \* media messages that have arrived

transferVars == <<impl, source, file_size, pos, u_pc, chunk, part_number, parts, mpu,
                  bparts, object, u_err, calls, submitted, partFailed,
                  afterFail, anyFail, d_pc, d_size, bytes_downloaded, dest,
                  destOpened, ranges, d_err>>
tokenVars == <<secret_key, now, tok, tokInfo, last>>
rateVars == <<rl_impl, limit, period, clock, user_requests, rl_log>>
downVars == <<d_pc, d_size, bytes_downloaded, dest, destOpened, ranges, d_err>>
jobVars == <<h_kind, h_pc, h_user, gate, media_size, downloaded, tmpdir,
             download_path, h_result, backups, backupHolds, ran, tried,
             cancelled, partsAtCancel, removedInUse, sent>>
progVars == <<p_impl, p_now, start_time, last_update, seen_so_far, reported,
              published, t_pc, t_amt, t_now, t_tmp, p_calls>>
loopVars == <<c_pc, c_kind, c_user, c_now, loop, arrivals>>
snapVars == <<s_site, s_pc, s_total, s_current, s_last, s_dt, s_samples, s_snap>>
clientVars == <<w_op, w_key, w_local, w_backend, w_bucket, w_out>>
nsVars == <<n_bucket, n_last>>
scratchVars == <<k_pc, k_name, k_dir, k_path, k_mpu, k_files, k_clash, k_made,
                 k_ids, k_arrived>>
serviceVars == <<clientVars, nsVars, scratchVars>>
notTransferVars == <<tokenVars, rateVars, jobVars, progVars, loopVars, snapVars,
                     serviceVars>>
notClientVars == <<transferVars, tokenVars, rateVars, jobVars, progVars, loopVars,
                   snapVars, nsVars, scratchVars>>
notNsVars == <<transferVars, tokenVars, rateVars, jobVars, progVars, loopVars,
               snapVars, clientVars, scratchVars>>
notScratchVars == <<transferVars, tokenVars, rateVars, jobVars, progVars, loopVars,
                    snapVars, clientVars, nsVars>>
vars == <<transferVars, tokenVars, rateVars, jobVars, progVars, loopVars,
          snapVars, serviceVars>>

Min(a, b) == IF a < b THEN a ELSE b
Max(a, b) == IF a > b THEN a ELSE b

----------------------------------------------------------------------------
(* Program constants: of bot.py and of the handlers in MiB, of S3Manager in
   bytes. *)
CHUNK_SIZE_BOT == 1024
MAX_FILE_SIZE == 2048
\* 8 * 1024 * 1024
CHUNK_SIZE_S3M == 8388608
\* 5 * 1024 * 1024
MIN_PART_SIZE == 5242880
PART_DIVISOR == 50
\* 100 * 1024 * 1024
MULTIPART_THRESHOLD == 104857600
\* bytes in one MiB
MiB == 1048576

(* Bounds of the model. *)
MaxChunks == 2
MaxRem == 1
\* 75 MiB, in bytes
SizeStride == 78643200
MaxStrides == 6

----------------------------------------------------------------------------
(* Byte strings. *)
Cat(a, b) ==
    IF a = <<>> THEN b
    ELSE IF b = <<>> THEN a
    ELSE IF a[Len(a)].hi = b[1].lo
         THEN SubSeq(a, 1, Len(a) - 1)
              \o <<[lo |-> a[Len(a)].lo, hi |-> b[1].hi]>>
              \o Tail(b)
         ELSE a \o b

RECURSIVE CLen(_)
CLen(c) == IF c = <<>> THEN 0 ELSE (c[1].hi - c[1].lo) + CLen(Tail(c))

RECURSIVE Slice(_, _, _)
Slice(c, start, n) ==
    IF n <= 0 \/ c = <<>> THEN <<>>
    ELSE LET h == c[1]
             hl == h.hi - h.lo
         IN  IF start >= hl THEN Slice(Tail(c), start - hl, n)
             ELSE LET take == Min(n, hl - start)
                  IN  Cat(<<[lo |-> h.lo + start, hi |-> h.lo + start + take]>>,
                          Slice(Tail(c), 0, n - take))

FileContent(size) == IF size = 0 THEN <<>> ELSE <<[lo |-> 0, hi |-> size]>>

FileReadRewound(size, p, n) == Slice(FileContent(size), Max(p - 1, 0), n)

(* file.read(n) of the source file at position p. *)
FileRead(size, p, n) == Slice(FileContent(size), p, n)

NoFile == [exists |-> FALSE, data |-> <<>>]
File(c) == [exists |-> TRUE, data |-> c]

----------------------------------------------------------------------------
(* Multipart upload. *)
CHUNK_SIZE == IF impl = "bot" THEN CHUNK_SIZE_BOT ELSE CHUNK_SIZE_S3M

PartSizeUnclamped(size) ==
    IF impl = "bot" THEN CHUNK_SIZE_BOT
    ELSE Max(size \div PART_DIVISOR, MIN_PART_SIZE)

(* part_size = min(max(file_size // 50, 5 * 1024 * 1024), CHUNK_SIZE); in
   upload_file_chunked the part size is CHUNK_SIZE *)
PartSize(size) ==
    IF impl = "bot" THEN CHUNK_SIZE_BOT
    ELSE Min(Max(size \div PART_DIVISOR, MIN_PART_SIZE), CHUNK_SIZE_S3M)

FileSizes(i) ==
    IF i = "bot"
    THEN {s \in {k * CHUNK_SIZE_BOT + d : k \in 0..MaxChunks, d \in 0..MaxRem} :
            s <= MAX_FILE_SIZE}
    ELSE {k * SizeStride + d : k \in 0..MaxStrides, d \in 0..MaxRem}
            \cup {MULTIPART_THRESHOLD + d : d \in 0..MaxRem}

Count(op) == [calls EXCEPT ![op] = @ + 1]

UploadEnded == u_pc \in {"returned", "raised"}

ExceptTargetRaise == "raised"

(* The state an except clause of the upload moves to. *)
ExceptTarget == "abort"

(* file_size = os.path.getsize(file_path), which raises for a missing file;
   then S3Manager.upload_file chooses between one put and the multipart path,
   and HighPerformanceS3.upload_file_chunked goes on to the multipart path. *)
UploadStart ==
    /\ u_pc = "start"
    /\ IF source = "missing"
       THEN /\ u_pc' = "raised"
            /\ u_err' = "getsize"
       ELSE /\ u_pc' = IF impl = "s3m" /\ ~(file_size > MULTIPART_THRESHOLD)
                       THEN "put" ELSE "create"
            /\ UNCHANGED u_err
    /\ UNCHANGED <<impl, source, file_size, pos, chunk, part_number, parts, mpu,
                   bparts, object, calls, submitted, partFailed, afterFail,
                   anyFail, downVars, tokenVars, snapVars, serviceVars, loopVars, rateVars, jobVars, progVars>>

(* with open(file_path, 'rb') as file: upload_fileobj(file, bucket, key) *)
PutObject ==
    /\ u_pc = "put"
    /\ IF source # "ok"
       THEN /\ u_pc' = "raised"
            /\ u_err' = "open"
            /\ UNCHANGED <<calls, object, anyFail>>
       ELSE /\ calls' = Count("put")
            /\ \/ /\ object' = File(FileRead(file_size, 0, file_size))
                  /\ u_pc' = "returned"
                  /\ UNCHANGED <<u_err, anyFail>>
               \/ /\ u_pc' = "raised"
                  /\ u_err' = "put"
                  /\ anyFail' = TRUE
                  /\ UNCHANGED object
    /\ UNCHANGED <<impl, source, file_size, pos, chunk, part_number, parts, mpu, bparts,
                   submitted, partFailed, afterFail, downVars, tokenVars, snapVars, serviceVars, loopVars, rateVars, jobVars, progVars>>

(* create_multipart_upload: outside the try block *)
CreateMultipartUpload ==
    /\ u_pc = "create"
    /\ calls' = Count("create")
    /\ \/ /\ mpu' = "open"
          /\ u_pc' = "open"
          /\ UNCHANGED <<u_err, anyFail>>
       \/ /\ u_pc' = "raised"
          /\ u_err' = "create"
          /\ anyFail' = TRUE
          /\ UNCHANGED mpu
    /\ UNCHANGED <<impl, source, file_size, pos, chunk, part_number, parts, bparts,
                   object, submitted, partFailed, afterFail, downVars, tokenVars, snapVars, serviceVars, loopVars, rateVars, jobVars, progVars>>

(* try: with open(file_path, 'rb') as file: the first statement of the try
   block, after create_multipart_upload *)
OpenSource ==
    /\ u_pc = "open"
    /\ IF source = "ok"
       THEN /\ u_pc' = "read"
            /\ UNCHANGED u_err
       ELSE /\ u_pc' = ExceptTarget
            /\ u_err' = "open"
    /\ UNCHANGED <<impl, source, file_size, pos, chunk, part_number, parts, mpu,
                   bparts, object, calls, submitted, partFailed, afterFail,
                   anyFail, downVars, tokenVars, snapVars, serviceVars, loopVars, rateVars, jobVars, progVars>>

(* chunk = file.read(part_size); if not chunk: break *)
ReadChunk ==
    /\ u_pc = "read"
    /\ LET c == FileRead(file_size, pos, PartSize(file_size))
       IN  /\ chunk' = c
           /\ pos' = pos + CLen(c)
           /\ u_pc' = IF c = <<>> THEN "complete" ELSE "part"
    /\ UNCHANGED <<impl, source, file_size, part_number, parts, mpu, bparts, object,
                   u_err, calls, submitted, partFailed, afterFail, anyFail, downVars, tokenVars, snapVars, serviceVars, loopVars, rateVars, jobVars, progVars>>

NextPartNumberSame(n) == n

(* part_number += 1 *)
NextPartNumber(n) == n + 1

KeepChunk(c) == c

(* chunk = None: the part buffer is released before the next read *)
FreeChunk(c) == <<>>

(* upload_part, then parts.append, part_number += 1 and chunk = None *)
UploadPart ==
    /\ u_pc = "part"
    /\ calls' = Count("part")
    /\ submitted' = Append(submitted, chunk)
    /\ afterFail' = IF partFailed THEN afterFail + 1 ELSE afterFail
    /\ \/ /\ bparts' = [n \in DOMAIN bparts \cup {part_number} |->
                          IF n = part_number THEN chunk ELSE bparts[n]]
          /\ parts' = Append(parts, [PartNumber |-> part_number, ETag |-> chunk])
          /\ part_number' = NextPartNumber(part_number)
          /\ chunk' = FreeChunk(chunk)
          /\ u_pc' = "read"
          /\ UNCHANGED <<u_err, partFailed, anyFail>>
       \/ /\ u_pc' = ExceptTarget
          /\ u_err' = "part"
          /\ partFailed' = TRUE
          /\ anyFail' = TRUE
          /\ UNCHANGED <<bparts, parts, part_number, chunk>>
    /\ UNCHANGED <<impl, source, file_size, pos, mpu, object, downVars, tokenVars, snapVars, serviceVars, loopVars, rateVars, jobVars, progVars>>

(* The object the backend assembles from the listed parts: the contents it
   received under the listed part numbers, concatenated in list order. *)
RECURSIVE AssembleRange(_, _, _, _)
AssembleRange(ps, bp, i, j) ==
    IF i > j THEN <<>>
    ELSE IF i = j THEN bp[ps[i].PartNumber]
    ELSE LET m == (i + j) \div 2
         IN  Cat(AssembleRange(ps, bp, i, m), AssembleRange(ps, bp, m + 1, j))

Assemble(ps, bp) == AssembleRange(ps, bp, 1, Len(ps))

(* complete_multipart_upload(MultipartUpload={'Parts': parts}) *)
CompleteMultipartUpload ==
    /\ u_pc = "complete"
    /\ calls' = Count("complete")
    /\ \/ /\ mpu' = "completed"
          /\ object' = File(Assemble(parts, bparts))
          /\ u_pc' = "returned"
          /\ UNCHANGED <<u_err, anyFail>>
       \/ /\ u_pc' = ExceptTarget
          /\ u_err' = "complete"
          /\ anyFail' = TRUE
          /\ UNCHANGED <<mpu, object>>
    /\ UNCHANGED <<impl, source, file_size, pos, chunk, part_number, parts, bparts,
                   submitted, partFailed, afterFail, downVars, tokenVars, snapVars, serviceVars, loopVars, rateVars, jobVars, progVars>>

(* The error that leaves the except clause when the abort call fails:
   HighPerformanceS3 calls abort bare, S3Manager inside try/except: pass. *)
ErrorAfterFailedAbort == IF impl = "bot" THEN "abort" ELSE u_err

(* except Exception as e: abort_multipart_upload(...); raise e *)
AbortMultipartUpload ==
    /\ u_pc = "abort"
    /\ calls' = Count("abort")
    /\ \/ /\ mpu' = "aborted"
          /\ UNCHANGED u_err
       \/ /\ u_err' = ErrorAfterFailedAbort
          /\ UNCHANGED mpu
    /\ anyFail' = TRUE
    /\ u_pc' = "raised"
    /\ UNCHANGED <<impl, source, file_size, pos, chunk, part_number, parts, bparts,
                   object, submitted, partFailed, afterFail, downVars, tokenVars, snapVars, serviceVars, loopVars, rateVars, jobVars, progVars>>

----------------------------------------------------------------------------
(* Ranged download: download_file_chunked / download_file. *)
upVars == <<impl, source, file_size, pos, u_pc, chunk, part_number, parts, mpu,
            bparts, object, u_err, calls, submitted, partFailed, afterFail>>

ExceptKeep(f) == f

(* except Exception as e: if os.path.exists(file_path): os.remove(file_path) *)
ExceptRemove(f) == NoFile

WriteChunkAtStart(data, body) == body

(* file.write(chunk) on the file opened 'wb' *)
WriteChunk(data, body) == Cat(data, body)

(* Range=f'bytes={bytes_downloaded}-{end_byte}' *)
RangeStart(done) == done

EndByteUnbounded(done, size) == done + CHUNK_SIZE - 1

(* end_byte = min(bytes_downloaded + CHUNK_SIZE - 1, file_size - 1) *)
EndByte(done, size) == Min(done + CHUNK_SIZE - 1, size - 1)

(* The body of a successful ranged get: the bytes start..end of the object. *)
GetObjectRange(obj, start, end) == Slice(obj.data, start, end - start + 1)

(* head = head_object(...); file_size = head['ContentLength'] *)
HeadObject ==
    /\ UploadEnded
    /\ d_pc = "head"
    /\ calls' = Count("head")
    /\ \/ /\ object.exists
          /\ d_size' = CLen(object.data)
          /\ d_pc' = "open"
          /\ UNCHANGED <<dest, d_err, anyFail>>
       \/ /\ dest' = ExceptRemove(dest)
          /\ d_err' = "head"
          /\ d_pc' = "raised"
          /\ anyFail' = TRUE
          /\ UNCHANGED d_size
    /\ UNCHANGED <<impl, source, file_size, pos, u_pc, chunk, part_number, parts, mpu,
                   bparts, object, u_err, submitted, partFailed, afterFail,
                   bytes_downloaded, destOpened, ranges, tokenVars, snapVars, serviceVars, loopVars, rateVars, jobVars, progVars>>

(* with open(file_path, 'wb') as file: bytes_downloaded = 0 *)
OpenDest ==
    /\ d_pc = "open"
    /\ dest' = File(<<>>)
    /\ destOpened' = TRUE
    /\ UNCHANGED ranges
    /\ bytes_downloaded' = 0
    /\ d_pc' = "loop"
    /\ UNCHANGED <<upVars, anyFail, d_size, d_err, tokenVars, snapVars, serviceVars, loopVars, rateVars, jobVars, progVars>>

(* one turn of: while bytes_downloaded < file_size *)
GetRange ==
    /\ d_pc = "loop"
    /\ bytes_downloaded < d_size
    /\ calls' = Count("get")
    /\ ranges' = Append(ranges, [start |-> RangeStart(bytes_downloaded),
                                 end |-> EndByte(bytes_downloaded, d_size),
                                 written |-> CLen(dest.data)])
    /\ \/ LET body == GetObjectRange(object, RangeStart(bytes_downloaded),
                                     EndByte(bytes_downloaded, d_size))
          IN  /\ dest' = File(WriteChunk(dest.data, body))
              /\ bytes_downloaded' = bytes_downloaded + CLen(body)
              /\ UNCHANGED <<d_pc, d_err, anyFail>>
       \/ /\ dest' = ExceptRemove(dest)
          /\ d_err' = "get"
          /\ d_pc' = "raised"
          /\ anyFail' = TRUE
          /\ UNCHANGED bytes_downloaded
    /\ UNCHANGED <<impl, source, file_size, pos, u_pc, chunk, part_number, parts, mpu,
                   bparts, object, u_err, submitted, partFailed, afterFail,
                   d_size, destOpened, tokenVars, snapVars, serviceVars, loopVars, rateVars, jobVars, progVars>>

(* return file_path *)
DownloadReturn ==
    /\ d_pc = "loop"
    /\ ~(bytes_downloaded < d_size)
    /\ d_pc' = "returned"
    /\ UNCHANGED <<upVars, anyFail, d_size, bytes_downloaded, dest, destOpened, ranges,
                   d_err, tokenVars, snapVars, serviceVars, loopVars, rateVars, jobVars, progVars>>

DownloadEnded == d_pc \in {"returned", "raised"}

(* Bound of the record of ranged reads under responses of any length. *)
MaxReads == 4

(* The lengths a response body can have when it is shorter than the range
   asked for: nothing, or half of it. *)
ShortBodies(full) == IF full >= 2 THEN {0, full \div 2} ELSE {0}

(* response = self.s3_client.get_object(Bucket, Key, Range=...): the request
   of one turn of the loop.  The record of reads keeps the first MaxReads. *)
RangeRequest ==
    /\ d_pc = "loop"
    /\ bytes_downloaded < d_size
    /\ calls' = IF calls["get"] < MaxReads THEN Count("get") ELSE calls
    /\ ranges' = IF Len(ranges) < MaxReads
                 THEN Append(ranges, [start |-> RangeStart(bytes_downloaded),
                                      end |-> EndByte(bytes_downloaded, d_size),
                                      written |-> CLen(dest.data)])
                 ELSE ranges
    /\ d_pc' = "get"
    /\ UNCHANGED <<impl, source, file_size, pos, u_pc, chunk, part_number, parts, mpu,
                   bparts, object, u_err, submitted, partFailed, afterFail,
                   anyFail, d_size, bytes_downloaded, dest, destOpened, d_err,
                   notTransferVars>>

(* chunk = response['Body'].read(); file.write(chunk);
   bytes_downloaded += len(chunk): the body is the range asked for, a
   shorter one, or the call raises. *)
RangeResponse ==
    /\ d_pc = "get"
    /\ LET full == GetObjectRange(object, RangeStart(bytes_downloaded),
                                  EndByte(bytes_downloaded, d_size))
       IN  \/ \E n \in ShortBodies(CLen(full)) \cup {CLen(full)} :
                 LET body == Slice(full, 0, n)
                 IN  /\ dest' = File(WriteChunk(dest.data, body))
                     /\ bytes_downloaded' = bytes_downloaded + CLen(body)
                     /\ d_pc' = "loop"
                     /\ UNCHANGED <<d_err, anyFail>>
           \/ /\ dest' = ExceptRemove(dest)
              /\ d_err' = "get"
              /\ d_pc' = "raised"
              /\ anyFail' = TRUE
              /\ UNCHANGED bytes_downloaded
    /\ UNCHANGED <<upVars, d_size, destOpened, ranges, notTransferVars>>

----------------------------------------------------------------------------
(* Access tokens: SecurityManager and the player endpoint.  A string is a
   sequence of one-character strings ("u00e9" stands for one character
   outside ASCII).  The clock counts ticks of
   1/TicksPerSec second, so that time.time() has a fractional part. *)
TicksPerSec == 2
MaxId == 10
MaxNameLen == 2
MaxTtl == 2
MaxIssueTick == 3
MaxNow == 9

ServerSecret == "k"
OtherSecret == "x"
Ids == 9..MaxId
NameChars == {"a", ":"}
Names == UNION {[1..n -> NameChars] : n \in 0..MaxNameLen}
Ttls == 1..MaxTtl

Digits == <<"0", "1", "2", "3", "4", "5", "6", "7", "8", "9">>
IsDigit(c) == \E d \in 1..10 : Digits[d] = c
DigitVal(c) == (CHOOSE d \in 1..10 : Digits[d] = c) - 1

(* str(n) of an integer *)
RECURSIVE IntToStr(_)
IntToStr(n) ==
    IF n < 0 THEN <<"-">> \o IntToStr(0 - n)
    ELSE IF n < 10 THEN <<Digits[n + 1]>>
    ELSE IntToStr(n \div 10) \o <<Digits[(n % 10) + 1]>>

(* whether int(s) succeeds, for strings over the alphabet of the model *)
IsNumeric(s) ==
    LET body == IF s # <<>> /\ s[1] = "-" THEN Tail(s) ELSE s
    IN  body # <<>> /\ \A i \in 1..Len(body) : IsDigit(body[i])

RECURSIVE DigitsToInt(_)
DigitsToInt(s) ==
    IF s = <<>> THEN 0
    ELSE 10 * DigitsToInt(SubSeq(s, 1, Len(s) - 1)) + DigitVal(s[Len(s)])

(* int(s), where it succeeds *)
StrToInt(s) == IF s[1] = "-" THEN 0 - DigitsToInt(Tail(s)) ELSE DigitsToInt(s)

(* s.split(sep) *)
RECURSIVE Split(_, _)
Split(s, sep) ==
    IF \A i \in 1..Len(s) : s[i] # sep THEN <<s>>
    ELSE LET k == CHOOSE i \in 1..Len(s) :
                      s[i] = sep /\ \A j \in 1..(i - 1) : s[j] # sep
         IN  <<SubSeq(s, 1, k - 1)>> \o Split(SubSeq(s, k + 1, Len(s)), sep)

(* hmac.new(key, data, sha256).hexdigest(): a keyed function of the data with
   no collisions, whose value holds no ':' *)
HMAC(key, data) ==
    <<key>> \o [i \in 1..Len(data) |-> IF data[i] = ":" THEN ";" ELSE data[i]]

(* f"{user_id}:{filename}:{timestamp}" *)
TokenData(user_id, filename, timestamp) ==
    user_id \o <<":">> \o filename \o <<":">> \o timestamp

(* timestamp = str(int(time.time() + expires_in)) *)
ExpiryStamp(t, expires_in) ==
    IntToStr((t + expires_in * TicksPerSec) \div TicksPerSec)

generate_token(key, user_id, filename, expires_in, t) ==
    LET data == TokenData(IntToStr(user_id), filename, ExpiryStamp(t, expires_in))
    IN  data \o <<":">> \o HMAC(key, data)

None == [valid |-> FALSE, user_id |-> 0, filename |-> <<>>, raised |-> "no"]
Payload(u, f) == [valid |-> TRUE, user_id |-> u, filename |-> f, raised |-> "no"]
Raised(e) == [valid |-> FALSE, user_id |-> 0, filename |-> <<>>, raised |-> e]

IsAscii(s) == \A i \in 1..Len(s) : s[i] # "u00e9"

CompareDigestAlways(signature, expected_sig) == TRUE

(* hmac.compare_digest(signature, expected_sig) on two equal-type strings *)
CompareDigest(signature, expected_sig) == signature = expected_sig

ExpiredNever(expiry, t) == FALSE

(* int(expiry) < time.time() *)
Expired(expiry, t) == expiry * TicksPerSec < t

(* the body of verify_token's try block *)
VerifyBody(key, token, t) ==
    LET ps == Split(token, ":")
    IN  IF Len(ps) # 4 THEN None
        ELSE LET data == TokenData(ps[1], ps[2], ps[3])
                 expected_sig == HMAC(key, data)
             IN  IF ~IsAscii(ps[4]) THEN Raised("TypeError")
                 ELSE IF ~CompareDigest(ps[4], expected_sig) THEN None
                 ELSE IF ~IsNumeric(ps[3]) THEN Raised("ValueError")
                 ELSE IF Expired(StrToInt(ps[3]), t) THEN None
                 ELSE IF ~IsNumeric(ps[1]) THEN Raised("ValueError")
                 ELSE Payload(StrToInt(ps[1]), ps[2])

(* try: ... except: return None *)
verify_token(key, token, t) ==
    LET r == VerifyBody(key, token, t)
    IN  IF r.raised # "no" THEN None ELSE r

NoCall == [op |-> "none"]

(* The ways the attacker derives a token from the issued one. *)
TamperKinds == {"chg_id", "chg_name", "chg_expiry", "other_secret", "drop_field",
                "extra_field", "bad_id", "bad_expiry", "bad_sig", "nonascii_sig",
                "empty"}

Tampered(kind, i) ==
    LET id == IntToStr(i.id)
        exp == ExpiryStamp(i.t0, i.ttl)
        sig == HMAC(ServerSecret, TokenData(id, i.name, exp))
        tk(a, b, c, d) == TokenData(a, b, c) \o <<":">> \o d
    IN  CASE kind = "chg_id" -> tk(IntToStr(i.id + 1), i.name, exp, sig)
          [] kind = "chg_name" -> tk(id, i.name \o <<"a">>, exp, sig)
          [] kind = "chg_expiry" -> tk(id, i.name, IntToStr(StrToInt(exp) + 1), sig)
          [] kind = "other_secret" ->
                 generate_token(OtherSecret, i.id, i.name, i.ttl, i.t0)
          [] kind = "drop_field" -> id \o <<":">> \o exp \o <<":">> \o sig
          [] kind = "extra_field" -> tk(id, i.name, exp, sig) \o <<":", "a">>
          [] kind = "bad_id" -> LET d == TokenData(<<"a">>, i.name, exp)
                                IN  d \o <<":">> \o sig
          [] kind = "bad_expiry" -> tk(id, i.name, <<"a">>, sig)
          [] kind = "bad_sig" -> tk(id, i.name, exp, <<"a">>)
          [] kind = "nonascii_sig" -> tk(id, i.name, exp, <<"u00e9">>)
          [] OTHER -> <<>>

(* generate_token(user_id, filename, expires_in) at the current clock *)
Generate ==
    /\ tokInfo.kind = "none"
    /\ now <= MaxIssueTick
    /\ \E id \in Ids, name \in Names, ttl \in Ttls :
          /\ tok' = generate_token(secret_key, id, name, ttl, now)
          /\ tokInfo' = [kind |-> "issued", id |-> id, name |-> name,
                         ttl |-> ttl, t0 |-> now]
    /\ last' = NoCall
    /\ UNCHANGED <<secret_key, now, transferVars, rateVars, snapVars, serviceVars, loopVars, jobVars, progVars>>

(* the attacker replaces the issued token by one derived from it *)
Tamper ==
    /\ tokInfo.kind = "issued"
    /\ \E kind \in TamperKinds :
          /\ tok' = Tampered(kind, tokInfo)
          /\ tokInfo' = [tokInfo EXCEPT !.kind = kind]
    /\ last' = NoCall
    /\ UNCHANGED <<secret_key, now, transferVars, rateVars, snapVars, serviceVars, loopVars, jobVars, progVars>>

(* time passes *)
Tick ==
    /\ now < MaxNow
    /\ now' = now + 1
    /\ last' = NoCall
    /\ UNCHANGED <<secret_key, tok, tokInfo, transferVars, rateVars, snapVars, serviceVars, loopVars, jobVars, progVars>>

(* security.verify_token(token) *)
Verify ==
    /\ tokInfo.kind # "none"
    /\ last' = [op |-> "verify", res |-> verify_token(secret_key, tok, now)]
    /\ UNCHANGED <<secret_key, now, tok, tokInfo, transferVars, rateVars, snapVars, serviceVars, loopVars, jobVars, progVars>>

(* HelperFunctions.decode_url: raises on input that is not base64 *)
DecodeUrl(urlOK) == IF urlOK THEN "url" ELSE "raise"

TokenRefusedNever(key, hasToken, token, t) == FALSE

(* if token: payload = verify_token(token); if not payload: 403 *)
TokenRefused(key, hasToken, token, t) ==
    /\ hasToken
    /\ token # <<>>
    /\ ~verify_token(key, token, t).valid

(* flask_app.player(media_type, encoded_url) with ?token=tok or without *)
Player ==
    /\ tokInfo.kind # "none"
    /\ \E urlOK \in BOOLEAN, hasToken \in BOOLEAN :
          last' = [op |-> "player", urlOK |-> urlOK, hasToken |-> hasToken,
                   status |-> IF DecodeUrl(urlOK) = "raise" THEN 400
                              ELSE IF TokenRefused(secret_key, hasToken, tok, now)
                                   THEN 403
                              ELSE 200]
    /\ UNCHANGED <<secret_key, now, tok, tokInfo, transferVars, rateVars, snapVars, serviceVars, loopVars, jobVars, progVars>>

----------------------------------------------------------------------------
(* Rate limiting: is_rate_limited(user_id, limit, period) of bot.py and of
   deepseek_python_20250927_ffcff5.py, over the module-level dictionary
   user_requests.  The clock counts seconds. *)
MaxLimit == 2
MaxPeriod == 2
MaxClock == 3
MaxCalls == 4

Users == {"u1", "u2"}

WindowOfAnyone(requests, user_id) == requests[CHOOSE u \in Users : TRUE]

(* user_requests[user_id]: the list kept under the caller's identity *)
WindowOf(requests, user_id) == requests[user_id]

PruneNothing(window, t, per) == window

(* [t for t in user_requests[user_id] if now - t < timedelta(seconds=period)] *)
Prune(window, t, per) == SelectSeq(window, LAMBDA r : t - r < per)

(* the window is_rate_limited leaves behind, and the answer it returns *)
LimiterStep(which, window, t, lim, per) ==
    LET pruned == Prune(window, t, per)
        limited == Len(pruned) >= lim
    IN  IF which = "bot"
        THEN [window |-> IF limited THEN pruned ELSE Append(pruned, t),
              limited |-> limited]
        ELSE [window |-> pruned, limited |-> limited]

IsRateLimited ==
    /\ Len(rl_log) < MaxCalls
    /\ \E u \in Users :
          LET r == LimiterStep(rl_impl, WindowOf(user_requests, u), clock, limit, period)
          IN  /\ user_requests' = [user_requests EXCEPT ![u] = r.window]
              /\ rl_log' = Append(rl_log, [user |-> u, t |-> clock,
                                           limited |-> r.limited])
    /\ UNCHANGED <<rl_impl, limit, period, clock, transferVars, tokenVars, snapVars, serviceVars, loopVars, jobVars, progVars>>

(* time passes *)
ClockTick ==
    /\ clock < MaxClock
    /\ clock' = clock + 1
    /\ UNCHANGED <<rl_impl, limit, period, user_requests, rl_log, transferVars,
                   tokenVars, snapVars, serviceVars, loopVars, jobVars, progVars>>

----------------------------------------------------------------------------
(* The message handlers: upload_file_handler, download_file_handler and
   start_command of bot.py (impl = "bot"), handle_upload and handle_download
   of deepseek_python_20250927_ffcff5.py (impl = "s3m").  One request is
   handled at a time; the upload the handler hands to the executor runs as
   the upload actions above, on the scratch file as its source file. *)
DEFAULT_LIMIT == 10
DEFAULT_PERIOD == 60

JobLargeSize == 101
MaxBackups == 1

Handlers(i) ==
    IF i = "bot" THEN {"start", "upload", "download"} ELSE {"upload", "download"}

(* the sizes, in MiB, Telegram declares for the media of a request *)
JobSizes(i) ==
    {0, 1, MAX_FILE_SIZE + 1}
        \cup {IF i = "bot" THEN CHUNK_SIZE_BOT + 1 ELSE JobLargeSize}

(* the size of a scratch file of m MiB in the unit of the upload that reads it *)
ScratchSize(i, m) == IF i = "bot" THEN m ELSE m * MiB

(* primary account 0 and the configured backup accounts 1..backups *)
Targets == 0..backups

NoGate == [user |-> "none", answer |-> "none"]
NoCalls == [op \in {"put", "create", "part", "complete", "abort", "head", "get"} |-> 0]

DeniedTargetProceed(kind) ==
    IF kind = "upload" THEN "validate"
    ELSE IF kind = "download" THEN "args" ELSE "done"

(* if is_rate_limited(message.from_user.id): reply_text(...); return *)
DeniedTarget(kind) == "done"

AllowedTarget(kind) ==
    IF kind = "upload" THEN "validate"
    ELSE IF kind = "download" THEN "args" ELSE "done"

(* a message reaches one of the handlers *)
Arrive ==
    /\ h_pc \in {"idle", "done"}
    /\ u_pc \in {"idle", "returned", "raised"}
    /\ \E k \in Handlers(impl), u \in Users :
          \E m \in IF k = "upload" THEN JobSizes(impl) ELSE {0} :
              /\ h_kind' = k
              /\ h_user' = u
              /\ media_size' = m
    /\ h_pc' = "rate"
    /\ gate' = NoGate
    /\ downloaded' = 0
    /\ tmpdir' = "none"
    /\ download_path' = FALSE
    /\ h_result' = "none"
    /\ ran' = {}
    /\ tried' = <<>>
    /\ cancelled' = FALSE
    /\ partsAtCancel' = 0
    /\ removedInUse' = FALSE
    /\ sent' = <<>>
    /\ source' = "missing"
    /\ file_size' = 0
    /\ pos' = 0
    /\ u_pc' = "idle"
    /\ chunk' = <<>>
    /\ part_number' = 1
    /\ parts' = <<>>
    /\ mpu' = "none"
    /\ bparts' = <<>>
    /\ u_err' = "none"
    /\ calls' = NoCalls
    /\ submitted' = <<>>
    /\ partFailed' = FALSE
    /\ afterFail' = 0
    /\ anyFail' = FALSE
    /\ d_pc' = "idle"
    /\ d_size' = 0
    /\ bytes_downloaded' = 0
    /\ dest' = NoFile
    /\ destOpened' = FALSE
    /\ ranges' = <<>>
    /\ d_err' = "none"
    /\ UNCHANGED <<impl, object, backups, backupHolds, tokenVars, snapVars, serviceVars, loopVars, rateVars,
                   progVars>>

(* the first statement of every handler: is_rate_limited(message.from_user.id)
   with the default limit and period *)
HandlerRateCheck ==
    /\ h_pc = "rate"
    /\ LET r == LimiterStep(rl_impl, WindowOf(user_requests, h_user), clock, limit,
                          period)
       IN  /\ user_requests' = [user_requests EXCEPT ![h_user] = r.window]
           /\ gate' = [user |-> h_user,
                       answer |-> IF r.limited THEN "denied" ELSE "allowed"]
           /\ h_pc' = IF r.limited THEN DeniedTarget(h_kind)
                      ELSE AllowedTarget(h_kind)
           /\ h_result' = IF r.limited THEN "limited"
                          ELSE IF h_kind = "start" THEN "ok" ELSE h_result
    /\ UNCHANGED <<transferVars, tokenVars, snapVars, serviceVars, loopVars, rl_impl, limit, period, clock, rl_log,
                   h_kind, sent, h_user, media_size, downloaded, tmpdir,
                   download_path, backups, backupHolds, ran, tried, cancelled,
                   partsAtCancel, removedInUse, progVars>>

(* if file_size > MAX_FILE_SIZE: reply_text("File too large"); return *)
ValidateSize ==
    /\ h_pc = "validate"
    /\ IF media_size > MAX_FILE_SIZE
       THEN /\ h_pc' = "done"
            /\ h_result' = "too_large"
       ELSE /\ h_pc' = "mkdtemp"
            /\ UNCHANGED h_result
    /\ UNCHANGED <<transferVars, tokenVars, snapVars, serviceVars, loopVars, rateVars, h_kind, sent, h_user, gate,
                   media_size, downloaded, tmpdir, download_path, backups,
                   backupHolds, ran, tried, cancelled, partsAtCancel,
                   removedInUse, progVars>>

(* if len(message.command) < 2: reply_text(usage); return *)
CheckArgs ==
    /\ h_pc = "args"
    /\ \E named \in BOOLEAN :
          IF named
          THEN /\ h_pc' = "head"
               /\ UNCHANGED h_result
          ELSE /\ h_pc' = "done"
               /\ h_result' = "usage"
    /\ UNCHANGED <<transferVars, tokenVars, snapVars, serviceVars, loopVars, rateVars, h_kind, sent, h_user, gate,
                   media_size, downloaded, tmpdir, download_path, backups,
                   backupHolds, ran, tried, cancelled, partsAtCancel,
                   removedInUse, progVars>>

(* download_dir = tempfile.mkdtemp(); the path is joined from it: in
   download_large_file it stays local to the generator, handle_upload binds
   download_path itself *)
Mkdtemp ==
    /\ h_pc = "mkdtemp"
    /\ tmpdir' = "exists"
    /\ download_path' = (impl = "s3m")
    /\ h_pc' = "open"
    /\ UNCHANGED <<transferVars, tokenVars, snapVars, serviceVars, loopVars, rateVars, h_kind, sent, h_user, gate,
                   media_size, downloaded, h_result, backups, backupHolds, ran,
                   tried, cancelled, partsAtCancel, removedInUse, progVars>>

(* what the except clause of download_large_file leaves of the directory:
   if os.path.exists(file_path): os.remove(file_path); os.rmdir(download_dir).
   handle_upload has no such clause. *)
DirAfterStreamError(i, d) == IF i = "bot" THEN "removed" ELSE d
FileAfterStreamError(i, f) == IF i = "bot" THEN "missing" ELSE f

(* async with aiofiles.open(file_path, 'wb') as file *)
OpenScratch ==
    /\ h_pc = "open"
    /\ \/ /\ source' = "ok"
          /\ h_pc' = "stream"
          /\ UNCHANGED tmpdir
       \/ /\ tmpdir' = DirAfterStreamError(impl, tmpdir)
          /\ h_pc' = "except"
          /\ UNCHANGED source
    /\ UNCHANGED <<impl, file_size, pos, u_pc, chunk, part_number, parts, mpu,
                   bparts, object, u_err, calls, submitted, partFailed,
                   afterFail, anyFail, downVars, tokenVars, snapVars, serviceVars, loopVars, rateVars, h_kind, sent,
                   h_user, gate, media_size, downloaded, download_path,
                   h_result, backups, backupHolds, ran, tried, cancelled,
                   partsAtCancel, removedInUse, progVars>>

(* the chunk sizes, in MiB, the stream may deliver next: one MiB first, or
   all that is left *)
StreamChoices(done, total) ==
    {n \in {1, total - done} : n >= 1 /\ (n = total - done \/ done = 0)}

(* async for chunk in client.stream_media(...): file.write(chunk);
   downloaded += len(chunk); or the stream raises *)
StreamChunk ==
    /\ h_pc = "stream"
    /\ downloaded < media_size
    /\ \/ /\ \E n \in StreamChoices(downloaded, media_size) :
                downloaded' = downloaded + n
          /\ h_pc' = "progress"
          /\ UNCHANGED <<source, tmpdir>>
       \/ /\ source' = FileAfterStreamError(impl, source)
          /\ tmpdir' = DirAfterStreamError(impl, tmpdir)
          /\ h_pc' = "except"
          /\ UNCHANGED downloaded
    /\ UNCHANGED <<impl, file_size, pos, u_pc, chunk, part_number, parts, mpu,
                   bparts, object, u_err, calls, submitted, partFailed,
                   afterFail, anyFail, downVars, tokenVars, snapVars, serviceVars, loopVars, rateVars, h_kind, sent,
                   h_user, gate, media_size, download_path, h_result, backups,
                   backupHolds, ran, tried, cancelled, partsAtCancel,
                   removedInUse, progVars>>

(* the stream is exhausted: download_large_file yields (file_path, file_size)
   and upload_file_handler binds download_path = current; handle_upload leaves
   the async with block *)
StreamEnd ==
    /\ h_pc = "stream"
    /\ ~(downloaded < media_size)
    /\ download_path' = TRUE
    /\ h_pc' = "begin"
    /\ UNCHANGED <<transferVars, tokenVars, snapVars, serviceVars, loopVars, rateVars, h_kind, sent, h_user, gate,
                   media_size, downloaded, tmpdir, h_result, backups,
                   backupHolds, ran, tried, cancelled, partsAtCancel,
                   removedInUse, progVars>>

(* the outcomes of message.edit_text *)
EditOutcomes == {"ok", "flood", "error"}

(* the body of the handler's loop for one chunk: nothing is due, or
   status_message.edit_text is called and returns, raises FloodWait or raises
   another error; or, in upload_file_handler, a statement outside the inner
   try raises (monitor.get_memory_usage()) *)
ReportProgress ==
    /\ h_pc = "progress"
    /\ \/ h_pc' = "stream"
       \/ \E o \in EditOutcomes :
             h_pc' = CASE o = "ok" -> "stream"
                       [] o = "flood" -> "flood"
                       [] o = "error" -> "edit_error"
       \/ /\ impl = "bot"
          /\ h_pc' = "except"
    /\ UNCHANGED <<transferVars, tokenVars, snapVars, serviceVars, loopVars, rateVars, h_kind, sent, h_user, gate,
                   media_size, downloaded, tmpdir, download_path, h_result,
                   backups, backupHolds, ran, tried, cancelled, partsAtCancel,
                   removedInUse, progVars>>

(* an error of edit_text other than FloodWait: upload_file_handler has
   except Exception: pass, handle_upload has no clause for it, so that it
   leaves the loop for the handler's except clause *)
AfterEditError(i) == IF i = "bot" THEN "stream" ELSE "except"

(* except FloodWait as e: await asyncio.sleep(e.value), and the other errors
   of the edit *)
EditFailed ==
    /\ h_pc \in {"flood", "edit_error"}
    /\ h_pc' = IF h_pc = "flood" THEN "stream" ELSE AfterEditError(impl)
    /\ UNCHANGED <<transferVars, tokenVars, snapVars, serviceVars, loopVars, rateVars, h_kind, sent, h_user, gate,
                   media_size, downloaded, tmpdir, download_path, h_result,
                   backups, backupHolds, ran, tried, cancelled, partsAtCancel,
                   removedInUse, progVars>>

(* await run_in_executor(s3_manager.executor, upload_file_chunked or
   upload_file, download_path, WASABI_BUCKET, user_file_name): the one
   upload of the job, against the primary account *)
UploadBegin ==
    /\ h_pc = "begin"
    /\ u_pc' = "start"
    /\ file_size' = ScratchSize(impl, downloaded)
    /\ ran' = {0}
    /\ h_pc' = "uploading"
    /\ UNCHANGED <<impl, source, pos, chunk, part_number, parts, mpu, bparts,
                   object, u_err, calls, submitted, partFailed, afterFail,
                   anyFail, downVars, tokenVars, snapVars, serviceVars, loopVars, rateVars, h_kind, sent, h_user,
                   gate, media_size, downloaded, tmpdir, download_path,
                   h_result, backups, backupHolds, tried, cancelled,
                   partsAtCancel, removedInUse, progVars>>

(* the await returns what the upload returned, or raises what it raised *)
UploadSucceeded(pc) == pc = "returned"

(* the await ends: after a return the presigned link is generated and sent
   with the success message (edit_text(success_text, reply_markup=keyboard)),
   an exception goes to the except clause *)
UploadJoin ==
    /\ h_pc = "uploading"
    /\ UploadEnded
    /\ IF UploadSucceeded(u_pc)
       THEN /\ h_pc' = "finally"
            /\ h_result' = "ok"
            /\ sent' = Append(sent, "link")
       ELSE /\ h_pc' = "except"
            /\ UNCHANGED <<h_result, sent>>
    /\ UNCHANGED <<transferVars, tokenVars, snapVars, serviceVars, loopVars, rateVars, h_kind, h_user, gate,
                   media_size, downloaded, tmpdir, download_path, backups,
                   backupHolds, ran, tried, cancelled, partsAtCancel,
                   removedInUse, progVars>>

(* the handler's task is cancelled while it awaits the executor:
   CancelledError is no Exception, so only the finally clause runs; the
   executor thread is not told *)
Cancel ==
    /\ h_pc = "uploading"
    /\ ~UploadEnded
    /\ cancelled' = TRUE
    /\ partsAtCancel' = calls["part"]
    /\ h_result' = "cancelled"
    /\ h_pc' = "finally"
    /\ UNCHANGED <<transferVars, tokenVars, snapVars, serviceVars, loopVars, rateVars, h_kind, sent, h_user, gate,
                   media_size, downloaded, tmpdir, download_path, backups,
                   backupHolds, ran, tried, removedInUse, progVars>>

(* except Exception as e: edit_text or reply_text of the error *)
Except ==
    /\ h_pc = "except"
    /\ h_result' = "error"
    /\ sent' = Append(sent, "failure")
    /\ h_pc' = IF impl = "bot" /\ h_kind = "download" THEN "done" ELSE "finally"
    /\ UNCHANGED <<transferVars, tokenVars, snapVars, serviceVars, loopVars, rateVars, h_kind, h_user, gate,
                   media_size, downloaded, tmpdir, download_path, backups,
                   backupHolds, ran, tried, cancelled, partsAtCancel,
                   removedInUse, progVars>>

(* the scratch file of the job: the source of the upload, or the destination
   of handle_download *)
ScratchExists == source = "ok" \/ dest.exists

(* the upload thread holds the scratch file open *)
SourceInUse == u_pc \in {"read", "part"}

(* finally: if download_path is bound and os.path.exists(download_path):
   os.remove(download_path); os.rmdir(directory) *)
Finally ==
    /\ h_pc = "finally"
    /\ IF download_path /\ ScratchExists
       THEN /\ source' = "missing"
            /\ dest' = NoFile
            /\ tmpdir' = "removed"
            /\ removedInUse' = (removedInUse \/ SourceInUse)
       ELSE UNCHANGED <<source, dest, tmpdir, removedInUse>>
    /\ h_pc' = "done"
    /\ UNCHANGED <<impl, file_size, pos, u_pc, chunk, part_number, parts, mpu,
                   bparts, object, u_err, calls, submitted, partFailed,
                   afterFail, anyFail, d_pc, d_size, bytes_downloaded,
                   destOpened, ranges, d_err, tokenVars, snapVars, serviceVars, loopVars, rateVars, h_kind, sent, h_user,
                   gate, media_size, downloaded, download_path, h_result,
                   backups, backupHolds, ran, tried, cancelled, partsAtCancel,
                   progVars>>

(* head = s3_client.head_object(Bucket=WASABI_BUCKET, Key=user_file_name) on
   the primary account; download_file_handler then answers with a presigned
   link, handle_download makes the temporary directory and binds
   download_path *)
DownloadHead ==
    /\ h_pc = "head"
    /\ calls' = Count("head")
    /\ tried' = Append(tried, 0)
    /\ \/ /\ object.exists
          /\ d_size' = CLen(object.data)
          /\ IF impl = "bot"
             THEN /\ h_pc' = "done"
                  /\ h_result' = "ok"
                  /\ sent' = Append(sent, "link")
                  /\ UNCHANGED <<tmpdir, download_path>>
             ELSE /\ h_pc' = "dopen"
                  /\ tmpdir' = "exists"
                  /\ download_path' = TRUE
                  /\ UNCHANGED <<h_result, sent>>
          /\ UNCHANGED anyFail
       \/ /\ anyFail' = TRUE
          /\ h_pc' = "except"
          /\ UNCHANGED <<d_size, tmpdir, download_path, h_result, sent>>
    /\ UNCHANGED <<impl, source, file_size, pos, u_pc, chunk, part_number,
                   parts, mpu, bparts, object, u_err, submitted, partFailed,
                   afterFail, d_pc, bytes_downloaded, dest, destOpened, ranges, d_err,
                   tokenVars, snapVars, serviceVars, loopVars, rateVars, h_kind, h_user, gate, media_size,
                   downloaded, backups, backupHolds, ran, cancelled,
                   partsAtCancel, removedInUse, progVars>>

(* download_with_progress: with open(download_path, 'wb') as file *)
DownloadOpen ==
    /\ h_pc = "dopen"
    /\ \/ /\ dest' = File(<<>>)
          /\ destOpened' = TRUE
          /\ bytes_downloaded' = 0
          /\ h_pc' = "dloop"
       \/ /\ h_pc' = "except"
          /\ UNCHANGED <<dest, destOpened, bytes_downloaded>>
    /\ UNCHANGED ranges
    /\ UNCHANGED <<upVars, anyFail, d_pc, d_size, d_err, tokenVars, snapVars, serviceVars, loopVars, rateVars,
                   h_kind, sent, h_user, gate, media_size, downloaded, tmpdir,
                   download_path, h_result, backups, backupHolds, ran, tried,
                   cancelled, partsAtCancel, removedInUse, progVars>>

(* one turn of the loop of download_with_progress: a ranged get_object and
   file.write(chunk) *)
DownloadGet ==
    /\ h_pc = "dloop"
    /\ bytes_downloaded < d_size
    /\ calls' = Count("get")
    /\ ranges' = Append(ranges, [start |-> RangeStart(bytes_downloaded),
                                 end |-> EndByte(bytes_downloaded, d_size),
                                 written |-> CLen(dest.data)])
    /\ \/ LET body == GetObjectRange(object, RangeStart(bytes_downloaded),
                                     EndByte(bytes_downloaded, d_size))
          IN  /\ dest' = File(WriteChunk(dest.data, body))
              /\ bytes_downloaded' = bytes_downloaded + CLen(body)
              /\ UNCHANGED <<h_pc, anyFail>>
       \/ /\ anyFail' = TRUE
          /\ h_pc' = "except"
          /\ UNCHANGED <<dest, bytes_downloaded>>
    /\ UNCHANGED <<impl, source, file_size, pos, u_pc, chunk, part_number,
                   parts, mpu, bparts, object, u_err, submitted, partFailed,
                   afterFail, d_pc, d_size, destOpened, d_err, tokenVars, snapVars, serviceVars, loopVars,
                   rateVars, h_kind, sent, h_user, gate, media_size, downloaded,
                   tmpdir, download_path, h_result, backups, backupHolds, ran,
                   tried, cancelled, partsAtCancel, removedInUse, progVars>>

(* the loop is left: client.send_document(document=download_path) and the
   success message *)
DownloadSend ==
    /\ h_pc = "dloop"
    /\ ~(bytes_downloaded < d_size)
    /\ \/ /\ h_pc' = "finally"
          /\ h_result' = "ok"
       \/ /\ h_pc' = "except"
          /\ UNCHANGED h_result
    /\ UNCHANGED <<transferVars, tokenVars, snapVars, serviceVars, loopVars, rateVars, h_kind, sent, h_user, gate,
                   media_size, downloaded, tmpdir, download_path, backups,
                   backupHolds, ran, tried, cancelled, partsAtCancel,
                   removedInUse, progVars>>

----------------------------------------------------------------------------
(* Progress reporting: progress_for_pyrogram and Boto3Progress of progress.py
   and the progress loop of upload_file_handler.  The clock counts ticks of
   1/TicksPerSec second.  Boto3Progress.__call__ is the transfer's Callback,
   invoked by the worker threads of the transfer; its statements are taken
   one at a time, and self._seen_so_far += bytes_amount is a load followed
   by a store. *)
PYROGRAM_INTERVAL == 1
LOOP_INTERVAL == 1
BOTO3_INTERVAL == 2

MaxProgTicks == 4
MaxProgCalls == 3
MaxAmount == 2
NumThreads == 2
MaxFloodWait == 1

Threads == 1..NumThreads
Amounts == 1..MaxAmount

(* time.time() when the transfer starts: every value that is no less than
   the longest interval behaves alike *)
TransferStart == BOTO3_INTERVAL * TicksPerSec

(* time passes *)
ProgressTick ==
    /\ p_now < TransferStart + MaxProgTicks
    /\ p_now' = p_now + 1
    /\ UNCHANGED <<transferVars, tokenVars, snapVars, serviceVars, loopVars, rateVars, jobVars, p_impl,
                   start_time, last_update, seen_so_far, reported, published,
                   t_pc, t_amt, t_now, t_tmp, p_calls>>

(* progress_for_pyrogram(current, total, ud_type, message, start_time):
   diff = now - start_time; if diff < 1: return; ...; edit_text, with
   FloodWait slept out by time.sleep and other errors passed over *)
progress_for_pyrogram ==
    /\ p_impl = "pyrogram"
    /\ p_calls < MaxProgCalls
    /\ p_calls' = p_calls + 1
    /\ IF p_now - start_time < PYROGRAM_INTERVAL * TicksPerSec
       THEN UNCHANGED <<published, p_now>>
       ELSE \E o \in EditOutcomes :
               /\ published' = IF o = "ok" THEN Append(published, p_now)
                               ELSE published
               /\ IF o = "flood"
                  THEN \E w \in 1..MaxFloodWait : p_now' = p_now + w * TicksPerSec
                  ELSE UNCHANGED p_now
    /\ UNCHANGED <<transferVars, tokenVars, snapVars, serviceVars, loopVars, rateVars, jobVars, p_impl,
                   start_time, last_update, seen_so_far, reported, t_pc, t_amt,
                   t_now, t_tmp>>

(* the loop body of upload_file_handler: time_diff = current_time -
   last_update; if time_diff >= 1.0: ...; try: edit_text; last_update =
   current_time; except FloodWait: asyncio.sleep; except Exception: pass *)
LoopProgress ==
    /\ p_impl = "loop"
    /\ p_calls < MaxProgCalls
    /\ p_calls' = p_calls + 1
    /\ IF p_now - last_update >= LOOP_INTERVAL * TicksPerSec
       THEN \E o \in EditOutcomes :
               /\ published' = IF o = "ok" THEN Append(published, p_now)
                               ELSE published
               /\ last_update' = IF o = "ok" THEN p_now ELSE last_update
               /\ IF o = "flood"
                  THEN \E w \in 1..MaxFloodWait : p_now' = p_now + w * TicksPerSec
                  ELSE UNCHANGED p_now
       ELSE UNCHANGED <<published, last_update, p_now>>
    /\ UNCHANGED <<transferVars, tokenVars, snapVars, serviceVars, loopVars, rateVars, jobVars, p_impl,
                   start_time, seen_so_far, reported, t_pc, t_amt, t_now, t_tmp>>

(* Boto3Progress.__call__(bytes_amount), entered by a worker thread:
   now = time.time(); if now - self._last_update_time < 2: return *)
Boto3Enter ==
    /\ p_impl = "boto3"
    /\ p_calls < MaxProgCalls
    /\ \E t \in Threads, a \in Amounts :
          /\ t_pc[t] = "idle"
          /\ t_amt' = [t_amt EXCEPT ![t] = a]
          /\ t_now' = [t_now EXCEPT ![t] = p_now]
          /\ reported' = reported + a
          /\ t_pc' = [t_pc EXCEPT ![t] =
                         IF p_now - last_update < BOTO3_INTERVAL * TicksPerSec
                         THEN "idle" ELSE "load"]
    /\ p_calls' = p_calls + 1
    /\ UNCHANGED <<transferVars, tokenVars, snapVars, serviceVars, loopVars, rateVars, jobVars, p_impl, p_now,
                   start_time, last_update, seen_so_far, published, t_tmp>>

(* self._seen_so_far += bytes_amount: the load *)
Boto3Load ==
    /\ \E t \in Threads :
          /\ t_pc[t] = "load"
          /\ t_tmp' = [t_tmp EXCEPT ![t] = seen_so_far]
          /\ t_pc' = [t_pc EXCEPT ![t] = "store"]
    /\ UNCHANGED <<transferVars, tokenVars, snapVars, serviceVars, loopVars, rateVars, jobVars, p_impl, p_now,
                   start_time, last_update, seen_so_far, reported, published,
                   t_amt, t_now, p_calls>>

(* self._seen_so_far += bytes_amount: the store *)
Boto3Store ==
    /\ \E t \in Threads :
          /\ t_pc[t] = "store"
          /\ seen_so_far' = t_tmp[t] + t_amt[t]
          /\ t_pc' = [t_pc EXCEPT ![t] = "publish"]
    /\ UNCHANGED <<transferVars, tokenVars, snapVars, serviceVars, loopVars, rateVars, jobVars, p_impl, p_now,
                   start_time, last_update, reported, published, t_amt, t_now,
                   t_tmp, p_calls>>

(* asyncio.run_coroutine_threadsafe(self._message.edit_text(...), loop);
   self._last_update_time = now *)
Boto3Publish ==
    /\ \E t \in Threads :
          /\ t_pc[t] = "publish"
          /\ published' = Append(published, p_now)
          /\ last_update' = t_now[t]
          /\ t_pc' = [t_pc EXCEPT ![t] = "idle"]
    /\ UNCHANGED <<transferVars, tokenVars, snapVars, serviceVars, loopVars, rateVars, jobVars, p_impl, p_now,
                   start_time, seen_so_far, reported, t_amt, t_now, t_tmp,
                   p_calls>>

----------------------------------------------------------------------------
(* Concurrent handlers of bot.py on the one event loop of the pyrogram
   Client: every handler is a coroutine, and the thread of the loop runs one
   coroutine at a time, from the point it is resumed to its next await.
   loop is the task that holds the thread (0: none).  The statements of
   is_rate_limited are taken one at a time.  A task of kind "progress" is a
   transfer whose progress callback is progress_for_pyrogram. *)
NumTasks == 2
MaxArrivals == 2
MaxLoopClock == 1
MaxLoopLimit == 1

Tasks == 1..NumTasks
TaskKinds == {"upload", "download", "progress"}

(* the task can run its next statement: it holds the thread, or it is ready
   and the thread is free *)
CanRun(t) == loop \in {0, t}

YieldLoop(t) == 0

(* who holds the thread after 'if len(user_requests[user_id]) >= limit' was
   false: there is no await before the append *)
HoldLoop(t) == t

(* the coroutine of the task returns: its locals are gone *)
Returned(t) ==
    /\ c_pc' = [c_pc EXCEPT ![t] = "idle"]
    /\ c_kind' = [c_kind EXCEPT ![t] = "none"]
    /\ c_user' = [c_user EXCEPT ![t] = "none"]
    /\ c_now' = [c_now EXCEPT ![t] = 0]

(* a message or a progress callback starts a coroutine in the first free
   task *)
TaskArrive ==
    /\ arrivals < MaxArrivals
    /\ \E t \in Tasks, k \in TaskKinds :
          /\ c_pc[t] = "idle"
          /\ \A x \in Tasks : c_pc[x] = "idle" => t <= x
          /\ c_kind' = [c_kind EXCEPT ![t] = k]
          /\ \E u \in IF k = "progress" THEN {"none"} ELSE Users :
                c_user' = [c_user EXCEPT ![t] = u]
          /\ c_pc' = [c_pc EXCEPT ![t] = IF k = "progress" THEN "edit" ELSE "rate"]
    /\ arrivals' = arrivals + 1
    /\ UNCHANGED <<transferVars, tokenVars, snapVars, serviceVars, rateVars, jobVars, progVars, loop,
                   c_now>>

(* is_rate_limited: now = datetime.now(); user_requests[user_id] = [pruned] *)
LimiterPrune ==
    /\ \E t \in Tasks :
          /\ c_pc[t] = "rate"
          /\ CanRun(t)
          /\ loop' = t
          /\ c_now' = [c_now EXCEPT ![t] = clock]
          /\ user_requests' =
                 [user_requests EXCEPT ![c_user[t]] =
                     Prune(WindowOf(user_requests, c_user[t]), clock, period)]
          /\ c_pc' = [c_pc EXCEPT ![t] = "check"]
    /\ UNCHANGED <<transferVars, tokenVars, snapVars, serviceVars, rl_impl, limit, period, clock,
                   rl_log, jobVars, progVars, c_kind, c_user, arrivals>>

(* if len(user_requests[user_id]) >= limit: return True, and the handler
   awaits reply_text("Rate limited") *)
LimiterCheck ==
    /\ \E t \in Tasks :
          /\ c_pc[t] = "check"
          /\ CanRun(t)
          /\ IF Len(WindowOf(user_requests, c_user[t])) >= limit
             THEN /\ rl_log' = Append(rl_log, [user |-> c_user[t], t |-> c_now[t],
                                               limited |-> TRUE])
                  /\ c_pc' = [c_pc EXCEPT ![t] = "reply"]
                  /\ loop' = 0
             ELSE /\ c_pc' = [c_pc EXCEPT ![t] = "append"]
                  /\ loop' = HoldLoop(t)
                  /\ UNCHANGED rl_log
    /\ UNCHANGED <<transferVars, tokenVars, snapVars, serviceVars, rl_impl, limit, period, clock,
                   user_requests, jobVars, progVars, c_kind, c_user, c_now,
                   arrivals>>

(* user_requests[user_id].append(now); return False; the handler goes on to
   its first await: reply_text of the status message *)
LimiterAppend ==
    /\ \E t \in Tasks :
          /\ c_pc[t] = "append"
          /\ CanRun(t)
          /\ user_requests' =
                 [user_requests EXCEPT ![c_user[t]] =
                     Append(WindowOf(user_requests, c_user[t]), c_now[t])]
          /\ rl_log' = Append(rl_log, [user |-> c_user[t], t |-> c_now[t],
                                       limited |-> FALSE])
          /\ c_pc' = [c_pc EXCEPT ![t] = "status"]
          /\ loop' = 0
    /\ UNCHANGED <<transferVars, tokenVars, snapVars, serviceVars, rl_impl, limit, period, clock,
                   jobVars, progVars, c_kind, c_user, c_now, arrivals>>

(* await message.reply_text(...) of a denied request returns; return *)
ReplyReturn ==
    /\ \E t \in Tasks :
          /\ c_pc[t] = "reply"
          /\ CanRun(t)
          /\ Returned(t)
    /\ loop' = 0
    /\ UNCHANGED <<transferVars, tokenVars, snapVars, serviceVars, rateVars, jobVars, progVars, arrivals>>

(* the await of the status message returns.  upload_file_handler goes on to
   await run_in_executor(s3_manager.executor, upload_file_chunked, ...): the
   upload runs in a thread of the executor.  download_file_handler goes on to
   head = s3_client.head_object(...), called in the coroutine itself. *)
StatusReturn ==
    /\ \E t \in Tasks :
          /\ c_pc[t] = "status"
          /\ CanRun(t)
          /\ IF c_kind[t] = "upload"
             THEN /\ c_pc' = [c_pc EXCEPT ![t] = "executor"]
                  /\ loop' = 0
             ELSE /\ c_pc' = [c_pc EXCEPT ![t] = "head"]
                  /\ loop' = t
    /\ UNCHANGED <<transferVars, tokenVars, snapVars, serviceVars, rateVars, jobVars, progVars, c_kind,
                   c_user, c_now, arrivals>>

(* the upload in the executor thread ends and the handler's await returns *)
ExecutorReturn ==
    /\ \E t \in Tasks :
          /\ c_pc[t] = "executor"
          /\ CanRun(t)
          /\ Returned(t)
    /\ loop' = 0
    /\ UNCHANGED <<transferVars, tokenVars, snapVars, serviceVars, rateVars, jobVars, progVars, arrivals>>

(* head_object returns or raises; the handler awaits edit_text and returns *)
HeadReturn ==
    /\ \E t \in Tasks :
          /\ c_pc[t] = "head"
          /\ CanRun(t)
          /\ Returned(t)
    /\ loop' = 0
    /\ UNCHANGED <<transferVars, tokenVars, snapVars, serviceVars, rateVars, jobVars, progVars, arrivals>>

(* progress_for_pyrogram: await message.edit_text(...) returns, raises
   FloodWait (except FloodWait as e: time.sleep(e.value), called in the
   coroutine itself) or raises another error (pass) *)
ProgressEdit ==
    /\ \E t \in Tasks, o \in EditOutcomes :
          /\ c_pc[t] = "edit"
          /\ CanRun(t)
          /\ IF o = "flood"
             THEN /\ c_pc' = [c_pc EXCEPT ![t] = "sleep"]
                  /\ loop' = t
                  /\ UNCHANGED <<c_kind, c_user, c_now>>
             ELSE /\ Returned(t)
                  /\ loop' = 0
    /\ UNCHANGED <<transferVars, tokenVars, snapVars, serviceVars, rateVars, jobVars, progVars, arrivals>>

(* time.sleep(e.value) returns, and the callback with it *)
SleepReturn ==
    /\ \E t \in Tasks :
          /\ c_pc[t] = "sleep"
          /\ CanRun(t)
          /\ Returned(t)
    /\ loop' = 0
    /\ UNCHANGED <<transferVars, tokenVars, snapVars, serviceVars, rateVars, jobVars, progVars, arrivals>>

(* time passes while the handlers run *)
LoopClockTick ==
    /\ clock < MaxLoopClock
    /\ clock' = clock + 1
    /\ UNCHANGED <<transferVars, tokenVars, snapVars, serviceVars, rl_impl, limit, period,
                   user_requests, rl_log, jobVars, progVars, loopVars>>

(* the task waits for a backend call or a back-off to end *)
Blocked(t) == c_pc[t] \in {"executor", "head", "sleep"}

IdleLoop ==
    /\ c_pc = [t \in Tasks |-> "idle"]
    /\ c_kind = [t \in Tasks |-> "none"]
    /\ c_user = [t \in Tasks |-> "none"]
    /\ c_now = [t \in Tasks |-> 0]
    /\ loop = 0
    /\ arrivals = 0

----------------------------------------------------------------------------
(* The figures of a progress snapshot: speed and ETA as computed by
   progress_for_pyrogram (site "pyrogram"), by the loop of
   upload_file_handler ("bot") and by the loops of handle_upload and
   handle_download ("deepseek").  Byte counts are small integers, times whole
   seconds, and a quotient is kept as a fraction n / d. *)
MaxTotal == 4
MaxDt == 2
MAX_SAMPLES == 10

Sites == {"pyrogram", "bot", "deepseek"}

Rat(n, d) == [n |-> n, d |-> d]
Zero == Rat(0, 1)
RatAdd(a, b) == Rat(a.n * b.d + b.n * a.d, a.d * b.d)

RECURSIVE RatSum(_)
RatSum(xs) == IF xs = <<>> THEN Zero ELSE RatAdd(xs[1], RatSum(Tail(xs)))

(* round(x): to the nearest integer, a half to the even one *)
Round(x) ==
    LET q == x.n \div x.d
        r == x.n % x.d
    IN  IF 2 * r < x.d THEN Rat(q, 1)
        ELSE IF 2 * r > x.d THEN Rat(q + 1, 1)
        ELSE IF q % 2 = 0 THEN Rat(q, 1) ELSE Rat(q + 1, 1)

(* PerformanceMonitor.add_speed_sample *)
add_speed_sample(samples, speed) ==
    LET s == Append(samples, speed)
    IN  IF Len(s) > MAX_SAMPLES THEN Tail(s) ELSE s

(* PerformanceMonitor.get_average_speed *)
get_average_speed(samples) ==
    IF samples = <<>> THEN Zero
    ELSE LET sum == RatSum(samples) IN Rat(sum.n, sum.d * Len(samples))

(* the speed shown: current / diff, the average of the samples, or
   (downloaded - last_processed) / (current_time - last_update) *)
Speed(site, current, last_processed, dt, samples) ==
    IF site = "pyrogram" THEN Rat(current, dt)
    ELSE IF site = "bot"
         THEN get_average_speed(
                  add_speed_sample(samples, Rat(current - last_processed, dt)))
         ELSE Rat(current - last_processed, dt)

(* eta = (total - current) / speed if speed > 0 else 0; progress_for_pyrogram
   rounds the quotient *)
Eta(site, remaining, speed) ==
    IF speed.n > 0
    THEN LET q == Rat(remaining * speed.d, speed.n)
         IN  IF site = "pyrogram" THEN Round(q) ELSE q
    ELSE Zero

NoSnap == [remaining |-> 0 - 1, speed |-> Zero, eta |-> Zero]

(* the transfer moves on and the reporter is entered a second or more after
   the time it measures from: the callback with any current, the loops after
   a chunk has been written *)
EtaChunk ==
    /\ s_pc = "wait"
    /\ \E c \in (IF s_site = "pyrogram" THEN s_current ELSE s_current + 1)..s_total :
          s_current' = c
    /\ \E dt \in 1..MaxDt :
          /\ s_site = "pyrogram" => dt >= s_dt
          /\ s_dt' = dt
    /\ s_pc' = "snap"
    /\ UNCHANGED <<transferVars, tokenVars, rateVars, jobVars, progVars,
                   loopVars, serviceVars, s_site, s_total, s_last, s_samples, s_snap>>

(* the snapshot is computed and edit_text is awaited; the loops move
   last_processed when the edit succeeded *)
EtaSnapshot ==
    /\ s_pc = "snap"
    /\ LET speed == Speed(s_site, s_current, s_last, s_dt, s_samples)
           remaining == s_total - s_current
       IN  s_snap' = [remaining |-> remaining, speed |-> speed,
                      eta |-> Eta(s_site, remaining, speed)]
    /\ s_samples' = IF s_site = "bot"
                    THEN add_speed_sample(s_samples, Rat(s_current - s_last, s_dt))
                    ELSE s_samples
    /\ \E o \in EditOutcomes :
          s_last' = IF o = "ok" /\ s_site # "pyrogram" THEN s_current ELSE s_last
    /\ s_pc' = "wait"
    /\ UNCHANGED <<transferVars, tokenVars, rateVars, jobVars, progVars,
                   loopVars, serviceVars, s_site, s_total, s_current, s_dt>>

IdleEta ==
    /\ s_site = "bot"
    /\ s_pc = "idle"
    /\ s_total = 0
    /\ s_current = 0
    /\ s_last = 0
    /\ s_dt = 0
    /\ s_samples = <<>>
    /\ s_snap = NoSnap

----------------------------------------------------------------------------
(* The backend wrappers: WasabiClient (utils/s3_client.py) and
   WasabiHandler.upload_file (wasabi_handler.py).  A call is given a local
   file, a key and a backend that is up, answers 403 to every request, or
   cannot be reached; a backend that is up answers 404 for a key it does
   not hold. *)
ObjectKeys == {"k1", "k2"}
LocalFiles == {"missing", "empty", "ok"}
Backends == {"up", "denied", "down"}
WrapperOps == {"upload_file", "download_file", "delete_file",
               "handler_upload_file", "get_file_info"}

Returns(v) == [kind |-> "returned", value |-> v]
Raises(e) == [kind |-> "raised", value |-> e]
NoOutcome == [kind |-> "none", value |-> "none"]

(* What the boto3 call raises, "none" if it succeeds: ClientError with the
   backend's code, or EndpointConnectionError, which is no ClientError.
   needsLocal: the call reads the local file; needsKey: it reads the
   object. *)
BackendError(backend, local, bucket, key, needsLocal, needsKey) ==
    IF needsLocal /\ local = "missing" THEN "FileNotFoundError"
    ELSE IF backend = "down" THEN "EndpointConnectionError"
    ELSE IF backend = "denied" THEN "ClientError403"
    ELSE IF needsKey /\ key \notin bucket THEN "ClientError404"
    ELSE "none"

IsClientError(e) == e \in {"ClientError403", "ClientError404"}

(* wasabi_handler.py imports asyncio, boto3, botocore.exceptions, config and
   logging: the name os that upload_file looks up is bound nowhere. *)
OsBound == FALSE

(* try: self.client.upload_file(...); return True
   except Exception: return False *)
WC_upload_file ==
    \E local \in LocalFiles, backend \in Backends, key \in ObjectKeys :
        LET e == BackendError(backend, local, w_bucket, key, TRUE, FALSE)
        IN  /\ w_op' = "upload_file"
            /\ w_key' = key
            /\ w_local' = local
            /\ w_backend' = backend
            /\ w_bucket' = IF e = "none" THEN w_bucket \cup {key} ELSE w_bucket
            /\ w_out' = Returns(e = "none")
            /\ UNCHANGED notClientVars

(* try: self.client.download_file(...); return True
   except Exception: return False *)
WC_download_file ==
    \E backend \in Backends, key \in ObjectKeys :
        LET e == BackendError(backend, "missing", w_bucket, key, FALSE, TRUE)
        IN  /\ w_op' = "download_file"
            /\ w_key' = key
            /\ w_local' = IF e = "none" THEN "ok" ELSE "missing"
            /\ w_backend' = backend
            /\ w_out' = Returns(e = "none")
            /\ UNCHANGED <<w_bucket, notClientVars>>

(* try: self.client.delete_object(...); return True
   except Exception: return False.  Deleting a key the bucket does not hold
   succeeds. *)
WC_delete_file ==
    \E backend \in Backends, key \in ObjectKeys :
        LET e == BackendError(backend, "missing", w_bucket, key, FALSE, FALSE)
        IN  /\ w_op' = "delete_file"
            /\ w_key' = key
            /\ w_local' = "missing"
            /\ w_backend' = backend
            /\ w_bucket' = IF e = "none" THEN w_bucket \ {key} ELSE w_bucket
            /\ w_out' = Returns(e = "none")
            /\ UNCHANGED notClientVars

(* try: response = head_object(...); return {...}
   except ClientError as e: if code == '404': return None; raise *)
WC_get_file_info ==
    \E backend \in Backends, key \in ObjectKeys :
        LET e == BackendError(backend, "missing", w_bucket, key, FALSE, TRUE)
        IN  /\ w_op' = "get_file_info"
            /\ w_key' = key
            /\ w_local' = "missing"
            /\ w_backend' = backend
            /\ w_out' = IF e = "none" THEN Returns("info")
                        ELSE IF IsClientError(e) /\ e = "ClientError404"
                             THEN Returns("None")
                        ELSE Raises(e)
            /\ UNCHANGED <<w_bucket, notClientVars>>

(* WasabiHandler.upload_file: os.path.exists, os.path.getsize, then
   run_in_executor(_upload_file_sync), all inside try ... except ClientError:
   return False / except Exception: return False.  The lookup of os raises
   NameError, which except Exception catches. *)
WH_upload_file ==
    \E local \in LocalFiles, backend \in Backends, key \in ObjectKeys :
        LET e == BackendError(backend, local, w_bucket, key, TRUE, FALSE)
            reached == OsBound /\ local = "ok"
        IN  /\ w_op' = "handler_upload_file"
            /\ w_key' = key
            /\ w_local' = local
            /\ w_backend' = backend
            /\ w_bucket' = IF reached /\ e = "none" THEN w_bucket \cup {key}
                           ELSE w_bucket
            /\ w_out' = IF ~OsBound THEN Returns(FALSE)
                        ELSE IF local = "missing" THEN Returns(FALSE)
                        ELSE IF local = "empty" THEN Returns(FALSE)
                        ELSE Returns(e = "none")
            /\ UNCHANGED notClientVars

IdleClient ==
    /\ w_op = "none"
    /\ w_key = "k1"
    /\ w_local = "missing"
    /\ w_backend = "up"
    /\ w_bucket = {}
    /\ w_out = NoOutcome

----------------------------------------------------------------------------
(* Object keys and namespaces: the Telegram commands of both bot files and
   the two API endpoints of web_server.py.  A file name and a key are
   sequences of characters; "u1" and "u2" stand for the digits of the two
   identities. *)
MaxNsLen == 2
MaxObjects == 2

NsChars == {"a", ".", "/"}
NsNames == UNION {[1..n -> NsChars] : n \in 1..MaxNsLen}

(* re.sub(r'[^a-zA-Z0-9 _.-]', '_', filename) *)
sanitize_filename(filename) ==
    [i \in 1..Len(filename) |->
        IF filename[i] \in {"a", "."} THEN filename[i] ELSE "_"]

(* f"user_{user_id}" *)
get_user_folder(user_id) == <<"user_", user_id>>

(* f"{get_user_folder(message.from_user.id)}/{file_name}" *)
UserKey(user_id, file_name) == get_user_folder(user_id) \o <<"/">> \o file_name

HasPrefix(key, prefix) ==
    /\ Len(key) >= Len(prefix)
    /\ SubSeq(key, 1, Len(prefix)) = prefix

(* list_objects_v2(Prefix=prefix) *)
ListObjects(bucket, prefix) == {k \in bucket : HasPrefix(k, prefix)}

NsRequest(op, u, key, touched) ==
    [op |-> op, user |-> u, key |-> key, touched |-> touched]

(* upload_file_handler / handle_upload: the key of the upload and of the
   presigned link is the folder joined with the sanitized name *)
NsUpload ==
    \E u \in Users, name \in NsNames :
        LET key == UserKey(u, sanitize_filename(name))
        IN  /\ key \in n_bucket \/ Cardinality(n_bucket) < MaxObjects
            /\ n_bucket' = n_bucket \cup {key}
            /\ n_last' = NsRequest("upload", u, key, {key})
            /\ UNCHANGED notNsVars

(* download_file_handler / handle_download: head_object and the link or the
   ranged reads, on the folder joined with the name as typed *)
NsDownload ==
    \E u \in Users, name \in NsNames :
        LET key == UserKey(u, name)
        IN  /\ n_last' = NsRequest("download", u, key, {key} \cap n_bucket)
            /\ UNCHANGED <<n_bucket, notNsVars>>

(* play_command: generate_presigned_url on the folder joined with the name *)
NsPlay ==
    \E u \in Users, name \in NsNames :
        LET key == UserKey(u, name)
        IN  /\ n_last' = NsRequest("play", u, key, {key} \cap n_bucket)
            /\ UNCHANGED <<n_bucket, notNsVars>>

(* list_command: list_objects_v2(Prefix=get_user_folder(id) + "/") *)
NsList ==
    \E u \in Users :
        LET prefix == get_user_folder(u) \o <<"/">>
        IN  /\ n_last' = NsRequest("list", u, prefix, ListObjects(n_bucket, prefix))
            /\ UNCHANGED <<n_bucket, notNsVars>>

(* delete_command: delete_object on the folder joined with the name *)
NsDelete ==
    \E u \in Users, name \in NsNames :
        LET key == UserKey(u, name)
        IN  /\ n_bucket' = n_bucket \ {key}
            /\ n_last' = NsRequest("delete", u, key, {key} \cap n_bucket)
            /\ UNCHANGED notNsVars

(* web_server.list_files: prefix = request.args.get('prefix', ''), passed to
   list_objects_v2 as it is; the visitor u is not asked who they are *)
WebListFiles ==
    \E u \in Users, prefix \in {<<>>} \cup {get_user_folder(v) \o <<"/">> : v \in Users} :
        /\ n_last' = NsRequest("api_files", u, prefix, ListObjects(n_bucket, prefix))
        /\ UNCHANGED <<n_bucket, notNsVars>>

(* web_server.generate_download_url: file_key = request.args.get('key'),
   passed to generate_presigned_url as it is *)
WebGenerateUrl ==
    \E u \in Users, key \in n_bucket \cup {UserKey(v, <<"a">>) : v \in Users} :
        /\ n_last' = NsRequest("api_generate_url", u, key, {key} \cap n_bucket)
        /\ UNCHANGED <<n_bucket, notNsVars>>

IdleNs ==
    /\ n_bucket = {}
    /\ n_last = NsRequest("none", "none", <<>>, {})


----------------------------------------------------------------------------
(* Concurrent upload jobs and their scratch files: download_large_file and
   upload_file_handler of bot.py, handle_upload of the other bot file, and
   the upload started in the executor.  A path is a directory and a name;
   directory 0 is the root of the file system. *)
NumJobs == 2
MaxJobArrivals == 3

Jobs == 1..NumJobs

(* media.file_name: two plain names and an absolute one *)
ScratchNames == {<<"a">>, <<"b">>, <<"/", "a">>}

IsAbsolute(name) == name[1] = "/"

(* os.path.join(download_dir, file_name): an absolute second component
   discards the first *)
Join(dir, name) ==
    IF IsAbsolute(name) THEN [dir |-> 0, name |-> name]
    ELSE [dir |-> dir, name |-> name]

NoPath == [dir |-> -1, name |-> <<>>]

(* job j opens, writes, reads or removes the file at its path: the file
   becomes its own if nobody holds it, and a file held by another job is
   recorded as touched *)
Touch(j) ==
    LET p == k_path[j]
        held == {f \in k_files : f.path = p}
    IN  /\ k_files' = IF held = {} THEN k_files \cup {[path |-> p, owner |-> j]}
                      ELSE k_files
        /\ k_clash' = k_clash \cup {[by |-> j, of |-> f.owner, path |-> p] :
                                       f \in {g \in held : g.owner # j}}

(* a media message arrives and its handler starts *)
JobArrive ==
    \E j \in Jobs, name \in ScratchNames :
        /\ k_pc[j] = "idle"
        /\ k_arrived < MaxJobArrivals
        /\ k_arrived' = k_arrived + 1
        /\ k_name' = [k_name EXCEPT ![j] = name]
        /\ k_pc' = [k_pc EXCEPT ![j] = "mkdtemp"]
        /\ UNCHANGED <<k_dir, k_path, k_mpu, k_files, k_clash, k_made, k_ids,
                       notScratchVars>>

(* download_dir = tempfile.mkdtemp(); file_path = os.path.join(download_dir,
   file_name) *)
JobMkdtemp ==
    \E j \in Jobs :
        /\ k_pc[j] = "mkdtemp"
        /\ k_made' = k_made + 1
        /\ k_dir' = [k_dir EXCEPT ![j] = k_made + 1]
        /\ k_path' = [k_path EXCEPT ![j] = Join(k_made + 1, k_name[j])]
        /\ k_pc' = [k_pc EXCEPT ![j] = "open"]
        /\ UNCHANGED <<k_name, k_mpu, k_files, k_clash, k_ids, k_arrived,
                       notScratchVars>>

(* async with aiofiles.open(file_path, 'wb') as file, and the chunks written
   through this handle *)
JobWrite ==
    \E j \in Jobs :
        /\ k_pc[j] \in {"open", "write"}
        /\ Touch(j)
        /\ k_pc' = [k_pc EXCEPT ![j] = IF k_pc[j] = "open" THEN "write" ELSE "create"]
        /\ UNCHANGED <<k_name, k_dir, k_path, k_mpu, k_made, k_ids, k_arrived,
                       notScratchVars>>

(* mpu = create_multipart_upload(...); mpu_id = mpu['UploadId']: the backend
   issues a new id on every call *)
JobCreateUpload ==
    \E j \in Jobs :
        /\ k_pc[j] = "create"
        /\ k_ids' = k_ids + 1
        /\ k_mpu' = [k_mpu EXCEPT ![j] = k_ids + 1]
        /\ k_pc' = [k_pc EXCEPT ![j] = "read"]
        /\ UNCHANGED <<k_name, k_dir, k_path, k_files, k_clash, k_made,
                       k_arrived, notScratchVars>>

(* with open(file_path, 'rb') as file: file.read(CHUNK_SIZE) through the
   job's own handle *)
JobRead ==
    \E j \in Jobs :
        /\ k_pc[j] = "read"
        /\ Touch(j)
        /\ k_pc' = [k_pc EXCEPT ![j] = "cleanup"]
        /\ UNCHANGED <<k_name, k_dir, k_path, k_mpu, k_made, k_ids, k_arrived,
                       notScratchVars>>

(* finally: os.remove(download_path); os.rmdir(os.path.dirname(...)) *)
JobCleanup ==
    \E j \in Jobs :
        /\ k_pc[j] = "cleanup"
        /\ LET p == k_path[j]
               held == {f \in k_files : f.path = p}
           IN  /\ k_files' = k_files \ held
               /\ k_clash' = k_clash \cup {[by |-> j, of |-> f.owner, path |-> p] :
                                              f \in {g \in held : g.owner # j}}
        /\ k_pc' = [k_pc EXCEPT ![j] = "idle"]
        /\ k_name' = [k_name EXCEPT ![j] = <<>>]
        /\ k_dir' = [k_dir EXCEPT ![j] = 0]
        /\ k_path' = [k_path EXCEPT ![j] = NoPath]
        /\ k_mpu' = [k_mpu EXCEPT ![j] = 0]
        /\ UNCHANGED <<k_made, k_ids, k_arrived, notScratchVars>>

IdleScratch ==
    /\ k_pc = [j \in Jobs |-> "idle"]
    /\ k_name = [j \in Jobs |-> <<>>]
    /\ k_dir = [j \in Jobs |-> 0]
    /\ k_path = [j \in Jobs |-> NoPath]
    /\ k_mpu = [j \in Jobs |-> 0]
    /\ k_files = {}
    /\ k_clash = {}
    /\ k_made = 0
    /\ k_ids = 0
    /\ k_arrived = 0

IdleService == IdleClient /\ IdleNs /\ IdleScratch

----------------------------------------------------------------------------
IdleJob ==
    /\ h_kind = "none"
    /\ h_pc = "idle"
    /\ h_user = "none"
    /\ gate = NoGate
    /\ media_size = 0
    /\ downloaded = 0
    /\ tmpdir = "none"
    /\ download_path = FALSE
    /\ h_result = "none"
    /\ backups = 0
    /\ backupHolds = FALSE
    /\ ran = {}
    /\ tried = <<>>
    /\ cancelled = FALSE
    /\ partsAtCancel = 0
    /\ removedInUse = FALSE
    /\ sent = <<>>

IdleProg ==
    /\ p_impl = "loop"
    /\ p_now = 0
    /\ start_time = 0
    /\ last_update = 0
    /\ seen_so_far = 0
    /\ reported = 0
    /\ published = <<>>
    /\ t_pc = [t \in Threads |-> "idle"]
    /\ t_amt = [t \in Threads |-> 0]
    /\ t_now = [t \in Threads |-> 0]
    /\ t_tmp = [t \in Threads |-> 0]
    /\ p_calls = 0

InitTransfer ==
    /\ impl \in {"bot", "s3m"}
    /\ source \in {"ok", "missing", "unreadable"}
    /\ file_size \in FileSizes(impl)
    /\ pos = 0
    /\ u_pc = "start"
    /\ chunk = <<>>
    /\ part_number = 1
    /\ parts = <<>>
    /\ mpu = "none"
    /\ bparts = <<>>
    /\ object = NoFile
    /\ u_err = "none"
    /\ calls = [op \in {"put", "create", "part", "complete", "abort", "head", "get"} |-> 0]
    /\ submitted = <<>>
    /\ partFailed = FALSE
    /\ afterFail = 0
    /\ anyFail = FALSE
    /\ d_pc = "head"
    /\ d_size = 0
    /\ bytes_downloaded = 0
    /\ dest \in {NoFile, File(<<[lo |-> 0, hi |-> 1]>>)}
    /\ destOpened = FALSE
    /\ ranges = <<>>
    /\ d_err = "none"

IdleToken ==
    /\ secret_key = ServerSecret
    /\ now = 0
    /\ tok = <<>>
    /\ tokInfo = [kind |-> "none", id |-> 0, name |-> <<>>, ttl |-> 0, t0 |-> 0]
    /\ last = NoCall

IdleRate ==
    /\ rl_impl = "bot"
    /\ limit = 1
    /\ period = 1
    /\ clock = 0
    /\ user_requests = [u \in Users |-> <<>>]
    /\ rl_log = <<>>

Init ==
    InitTransfer /\ IdleToken /\ IdleRate /\ IdleJob /\ IdleProg /\ IdleLoop
        /\ IdleEta /\ IdleService

Next ==
    \/ UploadStart
    \/ PutObject
    \/ CreateMultipartUpload
    \/ OpenSource
    \/ ReadChunk
    \/ UploadPart
    \/ CompleteMultipartUpload
    \/ AbortMultipartUpload
    \/ HeadObject
    \/ OpenDest
    \/ GetRange
    \/ DownloadReturn

Spec == Init /\ [][Next]_vars

IdleTransfer ==
    /\ impl = "bot"
    /\ source = "missing"
    /\ file_size = 0
    /\ pos = 0
    /\ u_pc = "idle"
    /\ chunk = <<>>
    /\ part_number = 1
    /\ parts = <<>>
    /\ mpu = "none"
    /\ bparts = <<>>
    /\ object = NoFile
    /\ u_err = "none"
    /\ calls = [op \in {"put", "create", "part", "complete", "abort", "head", "get"} |-> 0]
    /\ submitted = <<>>
    /\ partFailed = FALSE
    /\ afterFail = 0
    /\ anyFail = FALSE
    /\ d_pc = "idle"
    /\ d_size = 0
    /\ bytes_downloaded = 0
    /\ dest = NoFile
    /\ destOpened = FALSE
    /\ ranges = <<>>
    /\ d_err = "none"

InitToken ==
    IdleTransfer /\ IdleToken /\ IdleRate /\ IdleJob /\ IdleProg /\ IdleLoop
        /\ IdleEta /\ IdleService

NextToken ==
    \/ Generate
    \/ Tamper
    \/ Tick
    \/ Verify
    \/ Player

SpecToken == InitToken /\ [][NextToken]_vars

InitRate ==
    /\ IdleTransfer
    /\ IdleLoop
    /\ IdleEta /\ IdleService
    /\ IdleToken
    /\ IdleJob
    /\ IdleProg
    /\ rl_impl \in {"bot", "deepseek"}
    /\ limit \in 1..MaxLimit
    /\ period \in 1..MaxPeriod
    /\ clock = 0
    /\ user_requests = [u \in Users |-> <<>>]
    /\ rl_log = <<>>

NextRate ==
    \/ IsRateLimited
    \/ ClockTick

SpecRate == InitRate /\ [][NextRate]_vars

(* The handlers: every request is checked with the default limit and period
   against the limiter of its own file; the clock stands still. *)
InitJob ==
    /\ impl \in {"bot", "s3m"}
    /\ source = "missing"
    /\ file_size = 0
    /\ pos = 0
    /\ u_pc = "idle"
    /\ chunk = <<>>
    /\ part_number = 1
    /\ parts = <<>>
    /\ mpu = "none"
    /\ bparts = <<>>
    /\ object = NoFile
    /\ u_err = "none"
    /\ calls = NoCalls
    /\ submitted = <<>>
    /\ partFailed = FALSE
    /\ afterFail = 0
    /\ anyFail = FALSE
    /\ d_pc = "idle"
    /\ d_size = 0
    /\ bytes_downloaded = 0
    /\ dest = NoFile
    /\ destOpened = FALSE
    /\ ranges = <<>>
    /\ d_err = "none"
    /\ IdleToken
    /\ IdleProg
    /\ IdleLoop
    /\ IdleEta /\ IdleService
    /\ rl_impl = (IF impl = "bot" THEN "bot" ELSE "deepseek")
    /\ limit = DEFAULT_LIMIT
    /\ period = DEFAULT_PERIOD
    /\ clock = 0
    /\ user_requests = [u \in Users |-> <<>>]
    /\ rl_log = <<>>
    /\ h_kind = "none"
    /\ h_pc = "idle"
    /\ h_user = "none"
    /\ gate = NoGate
    /\ media_size = 0
    /\ downloaded = 0
    /\ tmpdir = "none"
    /\ download_path = FALSE
    /\ h_result = "none"
    /\ backups \in 0..MaxBackups
    /\ backupHolds \in {b \in BOOLEAN : b => backups > 0}
    /\ ran = {}
    /\ tried = <<>>
    /\ cancelled = FALSE
    /\ partsAtCancel = 0
    /\ removedInUse = FALSE
    /\ sent = <<>>

NextJob ==
    \/ Arrive
    \/ HandlerRateCheck
    \/ ValidateSize
    \/ CheckArgs
    \/ Mkdtemp
    \/ OpenScratch
    \/ StreamChunk
    \/ StreamEnd
    \/ ReportProgress
    \/ EditFailed
    \/ UploadBegin
    \/ UploadStart
    \/ PutObject
    \/ CreateMultipartUpload
    \/ OpenSource
    \/ ReadChunk
    \/ UploadPart
    \/ CompleteMultipartUpload
    \/ AbortMultipartUpload
    \/ UploadJoin
    \/ Cancel
    \/ Except
    \/ Finally
    \/ DownloadHead
    \/ DownloadOpen
    \/ DownloadGet
    \/ DownloadSend

SpecJob == InitJob /\ [][NextJob]_vars

(* Progress reporting of one transfer, by each of the three reporters. *)
InitProg ==
    /\ IdleTransfer
    /\ IdleLoop
    /\ IdleEta /\ IdleService
    /\ IdleToken
    /\ IdleRate
    /\ IdleJob
    /\ p_impl \in {"pyrogram", "loop", "boto3"}
    /\ p_now = TransferStart
    /\ start_time = TransferStart
    /\ last_update = (IF p_impl = "boto3" THEN 0 ELSE TransferStart)
    /\ seen_so_far = 0
    /\ reported = 0
    /\ published = <<>>
    /\ t_pc = [t \in Threads |-> "idle"]
    /\ t_amt = [t \in Threads |-> 0]
    /\ t_now = [t \in Threads |-> 0]
    /\ t_tmp = [t \in Threads |-> 0]
    /\ p_calls = 0

NextProg ==
    \/ ProgressTick
    \/ progress_for_pyrogram
    \/ LoopProgress
    \/ Boto3Enter
    \/ Boto3Load
    \/ Boto3Store
    \/ Boto3Publish

SpecProg == InitProg /\ [][NextProg]_vars

(* Concurrent handlers on one event loop, with the limiter of bot.py. *)
InitLoop ==
    /\ IdleTransfer
    /\ IdleToken
    /\ IdleJob
    /\ IdleProg
    /\ IdleLoop
    /\ IdleEta /\ IdleService
    /\ rl_impl = "bot"
    /\ limit \in 1..MaxLoopLimit
    /\ period \in 1..MaxLoopClock
    /\ clock = 0
    /\ user_requests = [u \in Users |-> <<>>]
    /\ rl_log = <<>>

NextLoop ==
    \/ TaskArrive
    \/ LimiterPrune
    \/ LimiterCheck
    \/ LimiterAppend
    \/ ReplyReturn
    \/ StatusReturn
    \/ ExecutorReturn
    \/ HeadReturn
    \/ ProgressEdit
    \/ SleepReturn
    \/ LoopClockTick

SpecLoop == InitLoop /\ [][NextLoop]_vars

(* The figures of the snapshots of one transfer, by each of the reporters. *)
InitEta ==
    /\ IdleTransfer
    /\ IdleToken
    /\ IdleRate
    /\ IdleJob
    /\ IdleProg
    /\ IdleLoop
    /\ IdleService
    /\ s_site \in Sites
    /\ s_pc = "wait"
    /\ s_total \in 1..MaxTotal
    /\ s_current = 0
    /\ s_last = 0
    /\ s_dt = 0
    /\ s_samples = <<>>
    /\ s_snap = NoSnap

NextEta ==
    \/ EtaChunk
    \/ EtaSnapshot

SpecEta == InitEta /\ [][NextEta]_vars

(* The ranged download of an object already stored, under responses of any
   length.  The loop runs in a worker thread that is never suspended for
   good, hence the weak fairness of its steps. *)
DownSizes(i) ==
    LET c == IF i = "bot" THEN CHUNK_SIZE_BOT ELSE CHUNK_SIZE_S3M
    IN  {k * c + d : k \in 0..MaxChunks, d \in 0..MaxRem}

InitDown ==
    /\ IdleToken
    /\ IdleRate
    /\ IdleJob
    /\ IdleProg
    /\ IdleLoop
    /\ IdleEta
    /\ IdleService
    /\ impl \in {"bot", "s3m"}
    /\ source = "ok"
    /\ file_size = 0
    /\ pos = 0
    /\ u_pc = "returned"
    /\ chunk = <<>>
    /\ part_number = 1
    /\ parts = <<>>
    /\ mpu = "none"
    /\ bparts = <<>>
    /\ object \in {NoFile} \cup {File(FileContent(n)) : n \in DownSizes(impl)}
    /\ u_err = "none"
    /\ calls = [op \in {"put", "create", "part", "complete", "abort", "head", "get"} |-> 0]
    /\ submitted = <<>>
    /\ partFailed = FALSE
    /\ afterFail = 0
    /\ anyFail = FALSE
    /\ d_pc = "head"
    /\ d_size = 0
    /\ bytes_downloaded = 0
    /\ dest \in {NoFile, File(<<[lo |-> 0, hi |-> 1]>>)}
    /\ destOpened = FALSE
    /\ ranges = <<>>
    /\ d_err = "none"

NextDown ==
    \/ HeadObject
    \/ OpenDest
    \/ RangeRequest
    \/ RangeResponse
    \/ DownloadReturn

SpecDown == InitDown /\ [][NextDown]_vars /\ WF_vars(NextDown)

(* The commands and API requests of two users on one bucket, in any order. *)
InitNs ==
    /\ IdleTransfer
    /\ IdleToken
    /\ IdleRate
    /\ IdleJob
    /\ IdleProg
    /\ IdleLoop
    /\ IdleEta
    /\ IdleService

NextNs ==
    \/ NsUpload
    \/ NsDownload
    \/ NsPlay
    \/ NsList
    \/ NsDelete
    \/ WebListFiles
    \/ WebGenerateUrl

SpecNs == InitNs /\ [][NextNs]_vars

(* Upload jobs running side by side, their steps interleaved in any order. *)
InitScratch ==
    /\ IdleTransfer
    /\ IdleToken
    /\ IdleRate
    /\ IdleJob
    /\ IdleProg
    /\ IdleLoop
    /\ IdleEta
    /\ IdleService

NextScratch ==
    \/ JobArrive
    \/ JobMkdtemp
    \/ JobWrite
    \/ JobCreateUpload
    \/ JobRead
    \/ JobCleanup

SpecScratch == InitScratch /\ [][NextScratch]_vars

(* The backend wrappers, called in any order on one bucket. *)
InitClient ==
    /\ IdleTransfer
    /\ IdleToken
    /\ IdleRate
    /\ IdleJob
    /\ IdleProg
    /\ IdleLoop
    /\ IdleEta
    /\ IdleService

NextClient ==
    \/ WC_upload_file
    \/ WC_download_file
    \/ WC_delete_file
    \/ WC_get_file_info
    \/ WH_upload_file

SpecClient == InitClient /\ [][NextClient]_vars

----------------------------------------------------------------------------
(* The claims. *)

\* C1: in a multipart upload, once an upload_part call has failed, no further
\* upload_part is issued, complete_multipart_upload is never called, and
\* abort_multipart_upload is called exactly once by the time the upload ends.
C1_AbortOnFailedPart ==
    partFailed =>
        /\ afterFail = 0
        /\ calls["complete"] = 0
        /\ calls["abort"] <= 1
        /\ (UploadEnded => calls["abort"] = 1)

C1_Witness ==
    /\ partFailed
    /\ UploadEnded
    /\ Len(parts) >= 1
    /\ calls["abort"] = 1

\* C2: when an upload has returned or raised, the upload id it created is
\* completed or aborted on the backend and is not left open, whatever the
\* outcome of the backend calls (the abort call included).
C2_NoOpenUploadAtEnd == UploadEnded => mpu # "open"

\* C3: for a source file of size > 0, the chunks submitted as parts are single
\* byte ranges, non-empty, each starting where the one before ended and the
\* first at offset 0, and once the file is read to its end they reach the
\* file size.
ChunksContiguous(cs) ==
    \A i \in 1..Len(cs) :
        /\ Len(cs[i]) = 1
        /\ cs[i][1].lo < cs[i][1].hi
        /\ cs[i][1].lo = IF i = 1 THEN 0 ELSE cs[i - 1][1].hi

AllSubmitted == u_pc = "complete" \/ calls["complete"] > 0

C3_PartsCoverFile ==
    file_size > 0 =>
        /\ ChunksContiguous(submitted)
        /\ (AllSubmitted =>
               /\ submitted # <<>>
               /\ submitted[Len(submitted)][1].hi = file_size)

C3_Witness ==
    /\ file_size > 0
    /\ AllSubmitted
    /\ Len(submitted) >= 2
    /\ CLen(submitted[Len(submitted)]) < CLen(submitted[1])

\* C4: a ranged download whose ranged read fails after the destination was
\* opened ends raised with the destination file removed, and a download that
\* returns normally has had no failure and left the whole object in the file.
C4_NoPartialFile ==
    /\ (d_err = "get" => destOpened /\ d_pc = "raised" /\ ~dest.exists)
    /\ (d_pc = "returned" =>
           d_err = "none" /\ dest.exists /\ CLen(dest.data) = d_size)

C4_Witness ==
    /\ d_err = "get"
    /\ d_pc = "raised"
    /\ destOpened
    /\ bytes_downloaded > 0

\* C5: when every backend call succeeds, an upload followed by a ranged
\* download leaves a destination file identical to the source file, for files
\* shorter and longer than one chunk.
C5_RoundTrip ==
    (d_pc = "returned" /\ ~anyFail) => dest = File(FileContent(file_size))

C5_Witness ==
    /\ d_pc = "returned"
    /\ ~anyFail
    /\ Len(parts) >= 2
    /\ calls["get"] >= 2
    /\ dest = File(FileContent(file_size))

StampedExpiry(i) == (i.t0 + i.ttl * TicksPerSec) \div TicksPerSec

\* C6: for every identity, name and ttl > 0, verifying an issued token at the
\* clock of its issuance returns exactly (identity, name), and verifying it at
\* any clock later than issue time + ttl returns the invalid outcome.
C6_IssueVerifyRoundTrip ==
    (last.op = "verify" /\ tokInfo.kind = "issued") =>
        /\ (now = tokInfo.t0 => last.res = Payload(tokInfo.id, tokInfo.name))
        /\ (now > tokInfo.t0 + tokInfo.ttl * TicksPerSec => last.res = None)

\* C7: verify_token accepts a token only if it has four fields of which the
\* fourth is the MAC under the server secret of the first three; a token made
\* from an issued one by changing the identity, the name or the expiry with the
\* signature kept, or signed under another secret, is rejected.
C7_SignatureBindsFields ==
    last.op = "verify" =>
        /\ (last.res.valid =>
               LET ps == Split(tok, ":")
               IN  /\ Len(ps) = 4
                   /\ ps[4] = HMAC(ServerSecret, TokenData(ps[1], ps[2], ps[3])))
        /\ (tokInfo.kind \in {"chg_id", "chg_name", "chg_expiry", "other_secret"}
               => ~last.res.valid)

C7_Witness ==
    /\ last.op = "verify"
    /\ tokInfo.kind = "chg_expiry"
    /\ now > StampedExpiry(tokInfo) * TicksPerSec
    /\ now <= (StampedExpiry(tokInfo) + 1) * TicksPerSec
    /\ ~last.res.valid

\* C8: verification is stateless (no call changes the manager's secret, the
\* only state it reads besides the token and the clock), and an issued token is
\* accepted at every clock up to and including its stamped expiry and at none
\* after it.
C8_StatelessUntilExpiry ==
    /\ secret_key = ServerSecret
    /\ (last.op = "verify" /\ tokInfo.kind = "issued") =>
           (last.res.valid <=> now <= StampedExpiry(tokInfo) * TicksPerSec)

BadToken ==
    \/ tokInfo.kind \in TamperKinds
    \/ /\ tokInfo.kind = "issued"
       /\ \/ now > StampedExpiry(tokInfo) * TicksPerSec
          \/ \E i \in 1..Len(tokInfo.name) : tokInfo.name[i] = ":"

\* C9 as stated: every bad token makes verify_token return None, and the
\* player endpoint answers every request that carries a bad token with 403.
C9_OneOutcomeAlways403 ==
    /\ (last.op = "verify" /\ BadToken) => last.res = None
    /\ (last.op = "player" /\ last.hasToken /\ BadToken) => last.status = 403

\* C9 as amended: every bad token makes verify_token return None, and the
\* player endpoint answers 403 to every request that carries a non-empty bad
\* token and whose encoded URL decodes.
C9_OneOutcome403WhenChecked ==
    /\ (last.op = "verify" /\ BadToken) => last.res = None
    /\ (last.op = "player" /\ last.hasToken /\ last.urlOK /\ tok # <<>> /\ BadToken)
           => last.status = 403

C9_Witness ==
    /\ last.op = "player"
    /\ last.hasToken
    /\ last.urlOK
    /\ tokInfo.kind = "nonascii_sig"
    /\ last.status = 403

UserCalls(u) == SelectSeq(rl_log, LAMBDA e : e.user = u)

\* C10: for any identity, of limit + 1 calls made within one period the first
\* limit are allowed and the last is denied, and a following call made a
\* period or more after the first allowed call is allowed.
C10_WindowLimit ==
    \A u \in Users :
        LET L == UserCalls(u)
        IN  (Len(L) >= limit + 1 /\ L[limit + 1].t - L[1].t < period) =>
                /\ \A i \in 1..limit : ~L[i].limited
                /\ L[limit + 1].limited
                /\ (Len(L) >= limit + 2 /\ L[limit + 2].t - L[1].t >= period)
                       => ~L[limit + 2].limited

\* C10 for the limiter of bot.py alone.
C10_WindowLimitBot == rl_impl = "bot" => C10_WindowLimit

NameHasDelimiter == \E i \in 1..Len(tokInfo.name) : tokInfo.name[i] = ":"

\* C6 and C8 for issued tokens whose name holds no ':' (not the claims: the
\* cases in which the code meets them).
C6_ForDelimiterFreeNames == ~NameHasDelimiter => C6_IssueVerifyRoundTrip
C8_ForDelimiterFreeNames == ~NameHasDelimiter => C8_StatelessUntilExpiry

UploadOrDownloadCalls == {"create", "part", "put", "head", "get"}

\* C11: in every handler no backend upload or download call (initiate, part
\* upload, put, head, ranged get) is made and no scratch directory or file is
\* created for a request unless the rate limiter was consulted in that
\* request for the requesting identity and allowed it; a denied request makes
\* no backend call and creates no scratch file.
C11_GateBeforeBackend ==
    /\ ((\E op \in UploadOrDownloadCalls : calls[op] > 0)
            \/ tmpdir # "none" \/ ScratchExists \/ u_pc # "idle")
           => gate = [user |-> h_user, answer |-> "allowed"]
    /\ gate.answer = "denied" =>
           /\ \A op \in DOMAIN calls : calls[op] = 0
           /\ tmpdir = "none"
           /\ ~ScratchExists

C11_Witness ==
    /\ h_kind = "upload"
    /\ h_pc = "done"
    /\ gate = [user |-> h_user, answer |-> "denied"]
    /\ h_result = "limited"
    /\ Len(user_requests[h_user]) = DEFAULT_LIMIT

\* C12: when the handler of an upload or download job has finished, on every
\* exit path (success, failed Telegram download, failed open of the scratch
\* file, failed backend transfer, an error raised in the handler while
\* progress is reported), the scratch file and the temporary directory made
\* for the job have both been removed.
C12_ScratchRemoved ==
    (h_pc = "done" /\ h_kind \in {"upload", "download"}) =>
        /\ ~ScratchExists
        /\ tmpdir # "exists"

(* the backends on which this job's upload committed the object *)
Committed == IF u_pc = "returned" THEN ran ELSE {}

\* C13: an upload job runs one upload pipeline for every configured backend
\* (the primary and each configured backup), and when the job is over its
\* result is success exactly if at least one backend committed.
C13_PipelinePerBackend ==
    /\ (h_kind = "upload" /\ ran # {}) => ran = Targets
    /\ (h_kind = "upload" /\ h_pc = "done" /\ ran # {} /\ UploadEnded /\ ~cancelled)
           => (h_result = "ok" <=> Committed # {})

(* the configured backends in priority order *)
PriorityOrder == [i \in 1..(backups + 1) |-> i - 1]

\* C14: a download that ends with an error after a failed backend call has
\* asked every configured backend, in priority order; and when the backups
\* hold the object, a failure of the primary does not make the download fail.
C14_Failover ==
    (h_kind = "download" /\ h_pc = "done" /\ anyFail) =>
        /\ (h_result = "error" => tried = PriorityOrder)
        /\ (backupHolds => h_result = "ok")

(* the single-part threshold in the unit of the running upload *)
Threshold == IF impl = "bot" THEN MULTIPART_THRESHOLD \div MiB
             ELSE MULTIPART_THRESHOLD

\* C15: on every upload path, an upload that returned has stored an object no
\* larger than the single-part threshold with exactly one put call and no
\* initiate, upload-part, complete or abort call, and a larger object through
\* the multipart calls and no put.
C15_SinglePutBelowThreshold ==
    u_pc = "returned" =>
        IF file_size <= Threshold
        THEN /\ calls["put"] = 1
             /\ calls["create"] = 0
             /\ calls["part"] = 0
             /\ calls["complete"] = 0
             /\ calls["abort"] = 0
        ELSE /\ calls["put"] = 0
             /\ calls["create"] = 1
             /\ calls["part"] >= 1
             /\ calls["complete"] = 1

\* C16: an upload whose source file is missing, unreadable or zero bytes long
\* issues no initiate, put, part-upload or completion call.
C16_InvalidInputNoBackendCall ==
    (u_pc # "idle" /\ (source # "ok" \/ file_size = 0)) =>
        \A op \in {"create", "put", "part", "complete"} : calls[op] = 0

(* the minimum interval, in seconds, of the reporter *)
MinInterval ==
    IF p_impl = "pyrogram" THEN PYROGRAM_INTERVAL
    ELSE IF p_impl = "loop" THEN LOOP_INTERVAL
    ELSE BOTO3_INTERVAL

\* C17: two consecutive published progress updates of one transfer are at
\* least the reporter's minimum interval apart (1 second for
\* progress_for_pyrogram and the handlers' loops, 2 seconds for Boto3Progress).
C17_Throttle ==
    \A i \in 2..Len(published) :
        published[i] - published[i - 1] >= MinInterval * TicksPerSec

AllCallbacksReturned == \A t \in Threads : t_pc[t] = "idle"

\* C18: when the callback of one Boto3Progress tracker has been invoked from
\* several worker threads and all the calls have returned, the accumulated
\* byte count equals the sum of the reported amounts.
C18_NoLostUpdate ==
    (p_impl = "boto3" /\ AllCallbacksReturned) => seen_so_far = reported

\* C19: after a job was cancelled during its upload, no further part is
\* submitted, the upload does not end with its upload id open or completed
\* without an abort call, and the scratch file is not removed while the
\* upload still reads it.
C19_CancelStopsUpload ==
    cancelled =>
        /\ calls["part"] = partsAtCancel
        /\ ~removedInUse
        /\ (UploadEnded /\ mpu # "none") => calls["abort"] >= 1

Clamp(x, lo, hi) == IF x < lo THEN lo ELSE IF x > hi THEN hi ELSE x

CeilDiv(a, b) == (a + b - 1) \div b

ExpectedPartSize == Clamp(file_size \div PART_DIVISOR, MIN_PART_SIZE, CHUNK_SIZE_S3M)

\* C20: S3Manager.multipart_upload uses the part size clamp(file_size div 50,
\* 5 MiB, 8 MiB); every part it submits is non-empty, every part but the last
\* has exactly that size, and once the file is read to its end there are
\* exactly ceil(file_size / part size) parts, the last carrying the remainder.
C20_PartPlan ==
    (impl = "s3m" /\ u_pc \notin {"start", "put"} /\ u_err # "getsize") =>
        /\ PartSize(file_size) = ExpectedPartSize
        /\ \A i \in 1..Len(submitted) :
              /\ CLen(submitted[i]) > 0
              /\ CLen(submitted[i]) <= ExpectedPartSize
              /\ (i < Len(submitted) => CLen(submitted[i]) = ExpectedPartSize)
        /\ AllSubmitted =>
              /\ Len(submitted) = CeilDiv(file_size, ExpectedPartSize)
              /\ CLen(submitted[Len(submitted)])
                     = file_size - (Len(submitted) - 1) * ExpectedPartSize

C20_Witness ==
    /\ impl = "s3m"
    /\ AllSubmitted
    /\ ExpectedPartSize > MIN_PART_SIZE
    /\ ExpectedPartSize < CHUNK_SIZE_S3M
    /\ CLen(submitted[Len(submitted)]) < ExpectedPartSize
    /\ Len(submitted) = CeilDiv(file_size, ExpectedPartSize)

\* the declared-size part of C16: a request whose declared size is above
\* MAX_FILE_SIZE makes no backend call (not the claim: the case in which the
\* code meets it).
C16_OversizeRejected ==
    media_size > MAX_FILE_SIZE =>
        /\ \A op \in DOMAIN calls : calls[op] = 0
        /\ tmpdir = "none"

\* C17 for the handlers' loop alone (not the claim: the reporter that meets
\* it).
C17_ThrottleLoop == p_impl = "loop" => C17_Throttle

\* C21: complete_multipart_upload is called at most once per upload id, only
\* after create_multipart_upload succeeded and every upload_part call returned
\* successfully, and the list it sends is exactly the (part number, returned
\* ETag) pairs of the uploaded parts, numbered 1..n in ascending order without
\* gaps or duplicates.
C21_CompleteOnceWithAllParts ==
    /\ calls["complete"] <= 1
    /\ AllSubmitted =>
          /\ calls["create"] = 1
          /\ mpu \in {"open", "completed", "aborted"}
          /\ ~partFailed
          /\ Len(parts) = calls["part"]
          /\ DOMAIN bparts = 1..Len(parts)
          /\ \A i \in 1..Len(parts) :
                /\ parts[i].PartNumber = i
                /\ parts[i].ETag = bparts[i]

C21_Witness ==
    /\ calls["complete"] = 1
    /\ mpu = "completed"
    /\ Len(parts) >= 2

\* C22: within one multipart upload at most one part is in flight: part k+1
\* is neither read from the source nor submitted before part k has been
\* acknowledged, and at most one part buffer is held (none while the next
\* part is about to be read).
PartsRead == CeilDiv(pos, PartSize(file_size))

C22_OnePartInFlight ==
    /\ PartsRead <= Len(parts) + 1
    /\ Len(submitted) <= Len(parts) + 1
    /\ u_pc = "read" => chunk = <<>> /\ PartsRead = Len(parts)
    /\ u_pc = "part" => /\ chunk # <<>>
                        /\ PartsRead = Len(parts) + 1
                        /\ Len(submitted) = Len(parts)

C22_Witness ==
    /\ u_pc = "part"
    /\ Len(parts) >= 1
    /\ Len(submitted) = Len(parts)

\* C23: when an upload_part call or the complete call of a multipart upload
\* fails, the error the upload raises to its caller is that causing error,
\* also when the abort call that follows fails itself.
C23_CausingErrorReachesCaller ==
    u_pc = "raised" =>
        /\ partFailed => u_err = "part"
        /\ calls["complete"] > 0 => u_err = "complete"

\* C23 for S3Manager.multipart_upload alone, whose abort call is wrapped in
\* try/except: pass (not the claim: the upload that meets it).
C23_S3Manager == impl = "s3m" => C23_CausingErrorReachesCaller

\* C24: a ranged download probes the object size first and issues no ranged
\* read when the probe fails; every ranged read starts at the number of bytes
\* already written and ends at min(start + CHUNK_SIZE - 1, size - 1), so that
\* no request exceeds CHUNK_SIZE bytes or reaches past the object; the reads
\* follow each other, each after the body of the one before was written, and
\* nothing received is held back unwritten.
RangeLen(r) == r.end - r.start + 1

C24_RangedDownload ==
    /\ Len(ranges) = calls["get"]
    /\ d_err = "head" => ranges = <<>>
    /\ ranges # <<>> => calls["head"] >= 1 /\ d_size = CLen(object.data)
    /\ d_pc \in {"loop", "returned"} => CLen(dest.data) = bytes_downloaded
    /\ \A i \in 1..Len(ranges) :
          /\ ranges[i].start = ranges[i].written
          /\ ranges[i].end = Min(ranges[i].start + CHUNK_SIZE - 1, d_size - 1)
          /\ RangeLen(ranges[i]) >= 1
          /\ RangeLen(ranges[i]) <= CHUNK_SIZE
          /\ ranges[i].end <= d_size - 1
          /\ i > 1 => ranges[i].start = ranges[i - 1].end + 1

C24_Witness ==
    /\ d_pc = "returned"
    /\ Len(ranges) >= 3
    /\ RangeLen(ranges[Len(ranges)]) < CHUNK_SIZE

\* C24 for download_with_progress of handle_download, under the handlers
\* (not the claim formula: the same property, from the handler's position).
C24_HandlerDownload ==
    /\ Len(ranges) = calls["get"]
    /\ ranges # <<>> => calls["head"] >= 1 /\ d_size = CLen(object.data)
    /\ h_pc = "dloop" => CLen(dest.data) = bytes_downloaded
    /\ \A i \in 1..Len(ranges) :
          /\ ranges[i].start = ranges[i].written
          /\ ranges[i].end = Min(ranges[i].start + CHUNK_SIZE - 1, d_size - 1)
          /\ RangeLen(ranges[i]) <= CHUNK_SIZE
          /\ i > 1 => ranges[i].start = ranges[i - 1].end + 1

\* C25: after any sequence of calls of is_rate_limited of bot.py, each
\* identity's stored window holds at most limit timestamps, in non-decreasing
\* order, all of them less than period old at the identity's latest call; an
\* allowed call appends exactly the current timestamp and a denied call
\* records nothing, so the window is the list of the times of the identity's
\* allowed calls that are less than period old at its latest call.
LiveAllowed(u) ==
    LET L == UserCalls(u)
        live == SelectSeq(L, LAMBDA e : ~e.limited /\ L[Len(L)].t - e.t < period)
    IN  [i \in 1..Len(live) |-> live[i].t]

C25_WindowInvariant ==
    rl_impl = "bot" =>
        \A u \in Users :
            LET w == user_requests[u]
                L == UserCalls(u)
            IN  /\ Len(w) <= limit
                /\ \A i \in 1..(Len(w) - 1) : w[i] <= w[i + 1]
                /\ \A i \in 1..Len(w) : L # <<>> /\ L[Len(L)].t - w[i] < period
                /\ w = LiveAllowed(u)

C25_Witness ==
    /\ rl_impl = "bot"
    /\ \E u \in Users :
          LET L == UserCalls(u)
          IN  /\ Len(L) >= 3
              /\ \E i \in 1..Len(L) : L[i].limited
              /\ ~L[1].limited
              /\ L[Len(L)].t - L[1].t >= period
              /\ Len(user_requests[u]) = limit

\* C27: rate windows are per identity: a call of is_rate_limited of bot.py
\* for one identity never changes another identity's window, and the answer
\* an identity gets is the one its own earlier calls determine (denied
\* exactly when limit of its own allowed calls are less than period old),
\* whatever calls other identities have made.
OwnLiveAllowed(i) ==
    {j \in 1..(i - 1) : /\ rl_log[j].user = rl_log[i].user
                        /\ ~rl_log[j].limited
                        /\ rl_log[i].t - rl_log[j].t < period}

AnswersFromOwnCalls ==
    \A i \in 1..Len(rl_log) :
        rl_log[i].limited <=> Cardinality(OwnLiveAllowed(i)) >= limit

OnlyCallersWindowChanges ==
    \A u \in Users :
        user_requests'[u] # user_requests[u] =>
            /\ Len(rl_log') = Len(rl_log) + 1
            /\ rl_log'[Len(rl_log')].user = u

C27_PerIdentity ==
    /\ [](rl_impl = "bot" => AnswersFromOwnCalls)
    /\ [][rl_impl = "bot" => OnlyCallersWindowChanges]_vars

C27_Witness ==
    /\ rl_impl = "bot"
    /\ Len(rl_log) >= 3
    /\ \E i, j \in 1..Len(rl_log) :
          /\ i < j
          /\ rl_log[i].user # rl_log[j].user
          /\ rl_log[i].limited
          /\ ~rl_log[j].limited
          /\ rl_log[i].t = rl_log[j].t

\* C26: the prune-check-record step of is_rate_limited is atomic with respect
\* to the concurrently running handlers: under every interleaving of the
\* handlers' steps, no identity is admitted more than limit times within any
\* window of length period.
AdmittedWithin(i) ==
    {j \in 1..Len(rl_log) : /\ rl_log[j].user = rl_log[i].user
                            /\ ~rl_log[j].limited
                            /\ rl_log[j].t >= rl_log[i].t
                            /\ rl_log[j].t - rl_log[i].t < period}

C26_LimiterAtomic ==
    /\ \A i \in 1..Len(rl_log) :
          ~rl_log[i].limited => Cardinality(AdmittedWithin(i)) <= limit
    /\ \A t \in Tasks : c_pc[t] \in {"check", "append"} => loop = t

C26_Witness ==
    \E t, s \in Tasks :
          /\ t # s
          /\ c_user[t] = c_user[s]
          /\ c_pc[t] = "append"
          /\ c_pc[s] = "rate"
          /\ c_now[t] = clock
          /\ Len(WindowOf(user_requests, c_user[t])) = limit - 1

\* C30: while one job is blocked, on a backend call or on a flood-wait
\* back-off taken in a progress callback, the handlers of other jobs can
\* still take steps: the blocked task does not hold the event-loop thread.
C30_NoBlockingOnLoop == \A t \in Tasks : Blocked(t) => loop # t

\* C30 for the upload of upload_file_handler alone, which is handed to the
\* executor (not the claim: the call that meets it).
C30_ExecutorUpload == \A t \in Tasks : c_pc[t] = "executor" => loop # t

\* C28: after any sequence of Boto3Progress callbacks made by a single
\* thread, _seen_so_far equals the sum of all byte amounts reported so far,
\* whether or not the individual callbacks were throttled.
SingleThread == \A t \in Threads : t # 1 => t_amt[t] = 0

C28_Unthrottled ==
    (p_impl = "boto3" /\ SingleThread /\ AllCallbacksReturned
        /\ Len(published) = p_calls) => seen_so_far = reported

\* C29: in every progress snapshot the ETA equals remaining_bytes / speed
\* when the speed is positive, and is reported as unknown, distinguishable
\* from an ETA of zero seconds, when the speed is zero.
C29_Eta ==
    s_snap # NoSnap =>
        /\ s_snap.speed.n > 0 =>
              s_snap.eta.n * s_snap.speed.n
                  = s_snap.remaining * s_snap.speed.d * s_snap.eta.d
        /\ s_snap.speed.n = 0 => s_snap.eta # Zero

\* C29 for the two handler loops alone, which are entered only after a
\* chunk has been written and do not round (not the claim: the reporters
\* that meet it).
C29_Loops == s_site # "pyrogram" => C29_Eta

\* the first part of C29 without the rounding of progress_for_pyrogram: the
\* quotient it rounds (not the claim).
C29_PositiveSpeedUpToRounding ==
    (s_snap # NoSnap /\ s_snap.speed.n > 0) =>
        LET d == 2 * (s_snap.eta.n * s_snap.speed.n
                        - s_snap.remaining * s_snap.speed.d * s_snap.eta.d)
        IN  d <= s_snap.speed.n * s_snap.eta.d /\ 0 - d <= s_snap.speed.n * s_snap.eta.d

----------------------------------------------------------------------------
(* What a True/False wrapper has to return for a call made on bucket: True
   exactly when its input checks passed (WasabiHandler.upload_file: the local
   file exists and is not empty) and the backend call succeeds. *)
ExpectedTrue(op, local, backend, bucket, key) ==
    CASE op = "upload_file" ->
            BackendError(backend, local, bucket, key, TRUE, FALSE) = "none"
      [] op = "handler_upload_file" ->
            /\ local = "ok"
            /\ BackendError(backend, local, bucket, key, TRUE, FALSE) = "none"
      [] op = "download_file" ->
            BackendError(backend, "missing", bucket, key, FALSE, TRUE) = "none"
      [] op = "delete_file" ->
            BackendError(backend, "missing", bucket, key, FALSE, FALSE) = "none"

FoldedAnswer(ops) ==
    w_op' \in ops =>
        w_out' = Returns(ExpectedTrue(w_op', w_local', w_backend', w_bucket, w_key'))

FileInfoAnswer ==
    w_op' = "get_file_info" =>
        LET e == BackendError(w_backend', "missing", w_bucket, w_key', FALSE, TRUE)
        IN  /\ (w_out' = Returns("None")) <=> (e = "ClientError404")
            /\ e \notin {"none", "ClientError404"} => w_out' = Raises(e)

(* C31: WasabiClient.upload_file, download_file and delete_file and
   WasabiHandler.upload_file never raise and return True exactly when the
   input checks passed and the backend call succeeded, False otherwise;
   get_file_info returns None only for a not-found answer and propagates
   every other backend error. *)
C31_ErrorsFolded ==
    [][/\ FoldedAnswer({"upload_file", "download_file", "delete_file",
                        "handler_upload_file"})
       /\ FileInfoAnswer]_vars

(* C31, for WasabiClient alone: its three True/False methods and
   get_file_info behave as the claim says. *)
C31_WasabiClient ==
    [][/\ FoldedAnswer({"upload_file", "download_file", "delete_file"})
       /\ FileInfoAnswer]_vars

(* C31, WasabiHandler.upload_file: it never raises, and never returns True. *)
C31_HandlerAlwaysFalse ==
    w_op = "handler_upload_file" => w_out = Returns(FALSE)

----------------------------------------------------------------------------
(* C32: the ranged-download loop always terminates: for every probed size
   and every sequence of range responses, short or empty bodies included,
   download_file_chunked / download_file ends with the destination path or
   a raised error. *)
C32_Terminates == <>DownloadEnded

(* C32, second half: when every response carries the whole range asked for,
   the download returns after exactly ceil(size / CHUNK_SIZE) reads. *)
C32_FullBodiesExactReads ==
    d_pc = "returned" => calls["get"] = CeilDiv(d_size, CHUNK_SIZE)

(* C32: a response that carries at least one byte moves the loop on, so the
   bytes written never exceed the probed size by more than nothing. *)
C32_NeverPastSize == d_pc \in {"loop", "get", "returned"} => bytes_downloaded <= d_size

----------------------------------------------------------------------------
ProbeFails == d_pc = "head" /\ d_pc' = "raised"

(* C34: a ranged download that fails at the metadata probe, before the
   destination has been opened for writing, leaves the destination path
   unchanged: a file that was there before the call is still there with its
   contents. *)
C34_ProbeFailureKeepsDest == [][ProbeFails => dest' = dest]_vars

(* C34, for a destination path that names no file: the failed probe creates
   none. *)
C34_ProbeFailureCreatesNothing ==
    [][ProbeFails /\ ~dest.exists => dest' = dest]_vars

----------------------------------------------------------------------------
LinkSent == \E i \in 1..Len(sent) : sent[i] = "link"

(* the Telegram download of an upload job failed: the handler has left its
   try block although the scratch directory was made and the upload never
   began *)
TelegramDownloadFailed ==
    /\ h_pc \in {"finally", "done"}
    /\ tmpdir # "none"
    /\ u_pc = "idle"

JobAnswered(spared) ==
    h_kind = "upload" =>
        /\ LinkSent => (u_pc = "returned" /\ sent = <<"link">>)
        /\ (h_pc = "done" /\ (u_pc = "raised" \/ TelegramDownloadFailed) /\ ~spared)
               => sent = <<"failure">>

(* C33: the upload handler issues the presigned share link and the success
   message only after the backend upload has returned successfully; on any
   failure of the Telegram download or of the backend upload no link is
   issued for the job and exactly one failure message is sent instead. *)
C33_LinkOnlyAfterSuccess == JobAnswered(FALSE)

(* C33, for the handlers that are not cancelled while they await the upload. *)
C33_UnlessCancelled == JobAnswered(cancelled)

----------------------------------------------------------------------------
PublishFailed == h_pc \in {"flood", "edit_error"} /\ h_pc' # h_pc

(* C35: a failure to publish a progress update (a flood-wait or any other
   error raised by the message edit) never fails or aborts the transfer being
   reported: the transfer continues with its next chunk. *)
C35_PublishFailureHarmless == [][PublishFailed => h_pc' = "stream"]_vars

(* C35, for upload_file_handler of bot.py. *)
C35_UploadFileHandler ==
    [][PublishFailed /\ impl = "bot" => h_pc' = "stream"]_vars

(* C35, for the flood-wait alone, in both handlers. *)
C35_FloodWait == [][PublishFailed /\ h_pc = "flood" => h_pc' = "stream"]_vars

----------------------------------------------------------------------------
TokenAccepted == verify_token(secret_key, tok, now).valid

(* C37 as stated: the player renders a media URL only when the request
   carries no token or a token that verify_token accepts; a request carrying
   a token that fails verification is answered with 403. *)
C37_RenderOnlyIfAccepted ==
    last.op = "player" =>
        /\ last.status = 200 => (~last.hasToken \/ TokenAccepted)
        /\ (last.hasToken /\ ~TokenAccepted) => last.status = 403

(* C37 as amended: the player renders only when the request carries no
   token, an empty token parameter, or a token that verify_token accepts; a
   request carrying a non-empty token that fails verification is never
   rendered: it is answered 403 when the encoded URL decodes and 400 when it
   does not. *)
C37_RenderOnlyIfAcceptedOrEmpty ==
    last.op = "player" =>
        /\ last.status = 200 => (~last.hasToken \/ tok = <<>> \/ TokenAccepted)
        /\ (last.hasToken /\ tok # <<>> /\ ~TokenAccepted)
               => last.status = (IF last.urlOK THEN 403 ELSE 400)

C37_Witness ==
    /\ last.op = "player"
    /\ last.hasToken
    /\ last.urlOK
    /\ tokInfo.kind = "issued"
    /\ now > StampedExpiry(tokInfo) * TicksPerSec
    /\ ~TokenAccepted
    /\ last.status = 403

----------------------------------------------------------------------------
OwnNamespace(ops) ==
    n_last.op \in ops =>
        LET prefix == get_user_folder(n_last.user) \o <<"/">>
        IN  /\ HasPrefix(n_last.key, prefix)
            /\ \A k \in n_last.touched : HasPrefix(k, prefix)

(* C36: every backend key that is written, probed, listed, deleted or given
   a share link on behalf of a requester u begins with u's folder prefix
   user_<u>/, so that no request of one user reads, links or alters an object
   stored under another user's prefix. *)
C36_OwnNamespace ==
    OwnNamespace({"upload", "download", "play", "list", "delete", "api_files",
                  "api_generate_url"})

(* C36, for the Telegram commands of both bot files. *)
C36_TelegramCommands ==
    OwnNamespace({"upload", "download", "play", "list", "delete"})

----------------------------------------------------------------------------
LiveJobs == {j \in Jobs : k_pc[j] \notin {"idle", "mkdtemp"}}

NoSharedState(names) ==
    /\ \A i, j \in LiveJobs :
          (i # j /\ k_name[i] \in names /\ k_name[j] \in names) =>
              /\ k_dir[i] # k_dir[j]
              /\ k_path[i] # k_path[j]
              /\ (k_mpu[i] # 0 => k_mpu[i] # k_mpu[j])
    /\ \A c \in k_clash : c.path.name \notin names

(* C38: jobs running concurrently share no local transfer state: each has
   its own freshly made scratch directory, its own file and its own upload
   id, so that under every interleaving one job's reads, writes and cleanup
   never touch another job's scratch file, also when both jobs carry the
   same file name. *)
C38_NoSharedState == NoSharedState(ScratchNames)

(* C38, for file names that are not absolute paths. *)
C38_RelativeNames ==
    NoSharedState({n \in ScratchNames : ~IsAbsolute(n)})

====
